---- MODULE Spec2Model ----
(***************************************************************************)
(* Model of the mapper configuration engine of lib/sqlalchemy/orm/mapper.py *)
(* Mapper construction (Mapper.__init__ and the _configure_* steps it runs  *)
(* under _CONFIGURE_MUTEX), the configuration pass (_configure_registries   *)
(* and _do_configure_registries) and registry disposal.                     *)
(*                                                                         *)
(* Every call is a frame on the calling thread's stack; a hook fired by a   *)
(* configuration pass may itself call _configure_registries, which pushes   *)
(* a second frame that runs the very same code.                             *)
(***************************************************************************)
EXTENDS Integers, Sequences, FiniteSets, TLC

\* ---- bounds of the model ------------------------------------------------
NMappers == 4
ChainMappers == 3
PassMappers == 2
NRegistries == 2
NHooks == 2
MaxThreads == 2

Mappers == 1 .. NMappers
Classes == 1 .. NMappers
Registries == 1 .. NRegistries
ThreadIds == 1 .. MaxThreads
Identities == {"a", "b"}
None == 0

\* an exception object: its class, its identity (the mapper whose processing
\* raised it first) and the identity of the exception held by its
\* _configure_failed attribute (0 when the object has no such attribute)
NoExc == [name |-> "none", id |-> 0, cf |-> 0]
PlainExc(n, m) == [name |-> n, id |-> m, cf |-> 0]

VARIABLES
    inputs,             \* the values the environment draws its inputs from
    threads,            \* the threads of the program
    stack,              \* per thread: the call frames, innermost last
    ret,                \* per thread: the frame of the call that last returned
    mutex,              \* _CONFIGURE_MUTEX: owner thread and recursion depth
    already_compiling,  \* module global _already_compiling
    new_mappers,        \* registry._new_mappers
    dependencies,       \* registry._dependencies
    dependents,         \* registry._dependents
    managers,           \* registry._managers: the classes with a manager
    manager_mapper,     \* manager.mapper of a class (None: not mapped)
    mstatus,            \* position of a Mapper object in its life
    class_,             \* Mapper.class_
    inherits,           \* Mapper.inherits
    polymorphic_identity, \* Mapper.polymorphic_identity
    pmap_of,            \* which polymorphic_map object a Mapper references
    pmaps,              \* the polymorphic_map objects: identity -> mapper
    inheriting_mappers, \* Mapper._inheriting_mappers
    base_mapper,        \* Mapper.base_mapper
    with_polymorphic,   \* Mapper.with_polymorphic (the classes, or None)
    props,              \* Mapper._props: the properties held, by owner
    init_properties,    \* Mapper._init_properties: the keys given
    exclude_properties, \* Mapper.exclude_properties
    prop_parent,        \* MapperProperty.parent of an added property
    batch,              \* Mapper.batch
    passive_updates,    \* Mapper.passive_updates
    passive_deletes,    \* Mapper.passive_deletes
    polymorphic_on,     \* Mapper.polymorphic_on (None, or its table)
    criterion,          \* the memoized Mapper._single_table_criterion
    concrete,           \* Mapper.concrete
    local_table,        \* Mapper.local_table (None, or a table)
    persist_selectable, \* Mapper.persist_selectable
    single,             \* Mapper.single
    primary_key,        \* Mapper.primary_key
    memoized,           \* the memoized Mapper.self_and_descendants ({}: none)
    configured,         \* Mapper.configured
    ready_for_configure, \* Mapper._ready_for_configure
    configure_failed,   \* Mapper._configure_failed (NoExc: attribute absent)
    dispose_called,     \* Mapper._dispose_called
    configure_started,  \* MapperProperty._configure_started, by owner
    configure_finished, \* MapperProperty._configure_finished, by owner
    initCount,          \* history: calls of prop.init(), by owner
    initFor,            \* history: the mappers that called prop.init()
    postCount,          \* history: calls of _post_configure_properties
    mcCount,            \* history: mapper_configured dispatches
    caught,             \* exceptions the application has caught so far
    legacy_is_orphan,   \* Mapper.legacy_is_orphan
    delete_orphans,     \* Mapper._delete_orphans: the (key, class) pairs
    url,                \* the URL an engine is created from
    on_connect,         \* the hook on_connect_url() returned
    conn,               \* the DBAPI connection: what was done on it, in order
    related,            \* the objects each attribute of an object refers to
    generator,          \* the generator a call of cascade_iterator() returned
    yielded             \* history: the items the generator has yielded

regvars == <<new_mappers, dependencies, dependents, managers, manager_mapper>>
chainvars == <<class_, inherits, polymorphic_identity, pmap_of, pmaps,
               inheriting_mappers, base_mapper, with_polymorphic, props>>
cfgvars == <<configured, ready_for_configure, configure_failed,
             dispose_called, configure_started, configure_finished>>
histvars == <<initCount, initFor, postCount, mcCount>>
tablevars == <<concrete, local_table, persist_selectable, single, primary_key>>
flagvars == <<batch, passive_updates, passive_deletes, polymorphic_on>>
propvars == <<init_properties, exclude_properties, prop_parent>>
orphanvars == <<legacy_is_orphan, delete_orphans>>
dialectvars == <<url, on_connect, conn>>
cascadevars == <<related, generator, yielded>>
mappervars == <<mutex, already_compiling, regvars, mstatus, chainvars,
                tablevars, flagvars, propvars, criterion, memoized, cfgvars,
                histvars, caught>>
vars == <<inputs, threads, stack, ret, mappervars, orphanvars, dialectvars,
          cascadevars>>

\* ---- frames --------------------------------------------------------------
ZeroOf(S) == [x \in S |-> 0]

NoFrame ==
    [kind |-> "none", pc |-> "none", nested |-> FALSE, entryFlag |-> FALSE,
     regs |-> {}, cascade |-> FALSE, todo |-> {}, done |-> {}, reg |-> None,
     has_skip |-> FALSE, pend |-> {}, m |-> None, hook |-> 0, exc |-> NoExc,
     nBefore |-> 0, nAfter |-> 0, found |-> FALSE, pendingAtCheck |-> FALSE,
     seen |-> {}, hooksRun |-> ZeroOf(Mappers), skipAt |-> ZeroOf(Mappers),
     posted |-> {}, inited |-> {}, mcd |-> {}, cfgd |-> {}, cleared |-> {},
     excOn |-> None, excSite |-> "none", folAny |-> FALSE, folClean |-> FALSE,
     arg_class |-> None, arg_inherits |-> None, arg_identity |-> "none",
     arg_load |-> "none", arg_fail |-> "none", arg_fks |-> 0,
     arg_cond |-> FALSE, arg_pkarg |-> FALSE, warned |-> FALSE,
     prior |-> None, based |-> None, rebound |-> {}, arg_batch |-> TRUE,
     arg_passive_updates |-> TRUE, arg_passive_deletes |-> FALSE,
     arg_star |-> FALSE, arg_spec |-> {}, arg_innerjoin |-> FALSE,
     joins |-> <<>>, arg_row |-> <<>>, arg_adapter |-> FALSE,
     arg_primary_key |-> <<>>, arg_token |-> None, key |-> <<>>,
     after |-> <<>>, accessor |-> "none", arg_key |-> "none", added |-> None,
     arg_configure |-> FALSE, arg_parents |-> {}, orphan |-> FALSE]

Top(t) == stack[t][Len(stack[t])]
Idle(t) == stack[t] = <<>>
AtPc(t, k, p) == /\ t \in threads
                 /\ ~Idle(t)
                 /\ Top(t).kind = k
                 /\ Top(t).pc = p
SetTop(t, f) == [stack EXCEPT ![t] = [@ EXCEPT ![Len(@)] = f]]
Push(t, f) == [stack EXCEPT ![t] = Append(@, f)]
Pop(t) == [stack EXCEPT ![t] = SubSeq(@, 1, Len(@) - 1)]
Saturate(n) == IF n < 2 THEN n + 1 ELSE 2

\* ---- _CONFIGURE_MUTEX = util.threading.RLock() ---------------------------
MutexFree == [owner |-> None, depth |-> 0]
CanAcquireAlways(t) == TRUE

\* RLock.acquire() returns when the lock is free or held by the caller
CanAcquire(t) == mutex.owner \in {None, t}
Acquired(t) == [owner |-> t, depth |-> mutex.depth + 1]
Released(mx) == IF mx.depth <= 1 THEN MutexFree
                ELSE [mx EXCEPT !.depth = @ - 1]

\* ---- registry helpers ------------------------------------------------------
RegistryOf(c) == ((c - 1) % NRegistries) + 1
IsSubclass(c, d) == c >= d
AnyNewAlways(regs) == TRUE

\* lines 3344-3348 and 3358-3362: is any of the registries flagged
AnyNew(regs) == \E r \in regs : new_mappers[r]

\* registry._mappers_to_configure(): the filter of one manager
ToConfigure(c) ==
    /\ manager_mapper[c] # None
    /\ ~configured[manager_mapper[c]]
    /\ ready_for_configure[manager_mapper[c]]
PendingIn(r) == {c \in managers[r] : ToConfigure(c)}

RECURSIVE RecurseDependents(_, _)
RecurseDependents(todo, done) ==
    IF todo \subseteq done THEN done
    ELSE LET nd == done \cup todo
         IN RecurseDependents((UNION {dependents[r] : r \in todo}) \ nd, nd)

\* registry._flag_new_mapper(mapper)
FlagNewMapper(r) ==
    IF new_mappers[r] THEN new_mappers
    ELSE [x \in Registries |->
            IF x \in RecurseDependents({r}, {}) THEN TRUE ELSE new_mappers[x]]

\* ---- the configuration pass ------------------------------------------------
MaxDepth == 2

AnySkip(f) == \E m \in Mappers : f.skipAt[m] > 0

\* what a hook does besides returning: return EXT_SKIP, raise, or call
\* _configure_registries itself
HookOutcomes == {"ok", "skip", "raise", "call"}

\* the exceptions a hook or a property's init() may raise: fresh ones, or one
\* the application caught from an earlier configure call and raises again
Raisable(m) == {PlainExc("Error", m)} \cup caught

\* configure_mappers(), Mapper._check_configure(), registry.configure()
ExternalArgs == {<<Registries, TRUE>>}
                  \cup {<<{r}, c>> : r \in Registries, c \in BOOLEAN}
HookArgs == {<<Registries, TRUE>>} \cup {<<{r}, TRUE>> : r \in Registries}

CallFrame(t, regs, cascade, nest) ==
    [NoFrame EXCEPT
       !.kind = "configure", !.pc = "lock", !.nested = nest,
       !.entryFlag = already_compiling, !.regs = regs, !.cascade = cascade,
       !.pendingAtCheck = \E r \in regs : PendingIn(r) # {},
       !.folAny = /\ ~nest
                  /\ ret[t].kind = "configure"
                  /\ ret[t].regs = regs,
       !.folClean = /\ ~nest
                    /\ ret[t].kind = "configure"
                    /\ regs \subseteq ret[t].regs
                    /\ ret[t].exc = NoExc
                    /\ ~AnySkip(ret[t])]

Returned(f) == [f EXCEPT !.pc = "returned"]

\* a frame returns to its caller; an exception that leaves the outermost
\* frame reaches the application, which may keep it
Return(t, f) ==
    /\ stack' = Pop(t)
    /\ ret' = [ret EXCEPT ![t] = Returned(f)]
    /\ caught' = IF Len(stack[t]) = 1 /\ f.exc.cf # 0
                 THEN caught \cup {f.exc} ELSE caught

\* _configure_registries, lines 3344-3348: the check outside the mutex
Enter(t, regs, cascade, nest) ==
    IF AnyNew(regs)
    THEN /\ stack' = Push(t, CallFrame(t, regs, cascade, nest))
         /\ ret' = [ret EXCEPT ![t] = NoFrame]
    ELSE /\ stack' = stack
         /\ ret' = [ret EXCEPT ![t] = Returned(CallFrame(t, regs, cascade, nest))]

configure_registries(t) ==
    /\ t \in threads
    /\ Idle(t)
    /\ \E a \in ExternalArgs \cap inputs.external :
         Enter(t, a[1], a[2], FALSE)
    /\ UNCHANGED <<inputs, threads, orphanvars, dialectvars, cascadevars, flagvars, propvars, criterion, memoized, tablevars, mutex, already_compiling, regvars, mstatus,
                   chainvars, cfgvars, histvars, caught>>

AlreadyCompilingNever == FALSE

\* line 3352: if _already_compiling: return
AlreadyCompiling == already_compiling

\* lines 3350-3362: take the mutex, the re-entrancy guard, the double check
Acquire(t) ==
    /\ AtPc(t, "configure", "lock")
    /\ CanAcquire(t)
    /\ LET f == Top(t) IN
       IF AlreadyCompiling
       THEN /\ Return(t, f)
            /\ UNCHANGED <<mutex, already_compiling>>
       ELSE IF ~AnyNew(f.regs)
       THEN /\ Return(t, f)
            /\ already_compiling' = FALSE
            /\ UNCHANGED mutex
       ELSE /\ stack' = SetTop(t, [f EXCEPT !.pc = "before", !.found = TRUE])
            /\ already_compiling' = TRUE
            /\ mutex' = Acquired(t)
            /\ UNCHANGED <<ret, caught>>
    /\ UNCHANGED <<inputs, threads, orphanvars, dialectvars, cascadevars, flagvars, propvars, criterion, memoized, tablevars, regvars, mstatus, chainvars, cfgvars, histvars>>

\* a hook calls configure_mappers() or reads a mapper's properties
HookCalls(t, f, pcCall) ==
    /\ "call" \in inputs.hooks
    /\ pcCall \in inputs.call_at
    /\ Len(stack[t]) < MaxDepth
    /\ \E a \in HookArgs :
         IF AnyNew(a[1])
         THEN /\ stack' = [stack EXCEPT ![t] =
                             Append([@ EXCEPT ![Len(@)] =
                                       [f EXCEPT !.pc = pcCall]],
                                    CallFrame(t, a[1], a[2], TRUE))]
              /\ ret' = [ret EXCEPT ![t] = NoFrame]
         ELSE /\ stack' = SetTop(t, [f EXCEPT !.pc = pcCall])
              /\ ret' = [ret EXCEPT ![t] =
                           Returned(CallFrame(t, a[1], a[2], TRUE))]

\* an exception leaves the try block of _configure_registries
Raise(f, e, on, site) ==
    [f EXCEPT !.exc = e, !.excOn = on, !.excSite = site, !.pc = "finally"]

\* lines 2703-2716: self_and_descendants, over _inheriting_mappers
ChildrenOf(S) ==
    {x \in Mappers : \E q \in S : \E k \in 1 .. Len(inheriting_mappers[q]) :
                       inheriting_mappers[q][k] = x}

RECURSIVE Closure(_)
Closure(S) == IF ChildrenOf(S) \subseteq S THEN S ELSE Closure(S \cup ChildrenOf(S))

\* lines 2702-2716: self_and_descendants is a memoized attribute: the first
\* read computes it from _inheriting_mappers, later reads return that value
\* until the memoizations of the mapper are reset
ComputedDescendants(m) == Closure({m})

\* the memoized _single_table_criterion: not computed yet, None, or the
\* identities of the IN list
NoCriterion == [memo |-> FALSE, filter |-> FALSE, col |-> [table |-> 0, name |-> "none"],
                in_ |-> {}]

SelfAndChildren(m) == {m} \cup ChildrenOf({m})

SelfAndDescendants(m) ==
    IF memoized[m] # {} THEN memoized[m] ELSE ComputedDescendants(m)

\* lines 2696-2700: iterate_to_root()
RECURSIVE ToRoot(_)
ToRoot(m) == IF m = None THEN {} ELSE {m} \cup ToRoot(inherits[m])

\* lines 1928-1930: _expire_memoizations()
ExpireMemoizations(m) ==
    [x \in Mappers |-> IF x \in ToRoot(m) THEN {} ELSE memoized[x]]
ExpireCriterion(m) ==
    [x \in Mappers |-> IF x \in ToRoot(m) THEN NoCriterion ELSE criterion[x]]

\* ---- columns and properties ------------------------------------------------------
\* a column of a table; every table has a key column and one more column
Column(tb, n) == [table |-> tb, name |-> n]
TableColumns(tb) == <<Column(tb, "id"), Column(tb, "x")>>
NoColumn == Column(None, "none")

\* selectable.columns: the columns of its tables, in the order of the FROM list
RECURSIVE SelectableColumns(_)
SelectableColumns(tables) ==
    IF tables = <<>> THEN <<>>
    ELSE TableColumns(Head(tables)) \o SelectableColumns(Tail(tables))

\* the MapperProperty objects: those a mapper makes in its constructor are
\* named by the mapper, those given to add_property() or made by
\* _set_polymorphic_on() have numbers of their own, and the
\* ConcreteInheritedProperty a concrete mapper c makes for a property of an
\* ancestor is named by both
MaxAdded == 2
AddedIds == (NMappers + 1) .. (NMappers + MaxAdded)
Origin(id) == IF id < 10 THEN id ELSE id \div 10
PlaceholderId(c, id) == 10 * Origin(id) + c
PropIds == (1 .. (NMappers + MaxAdded))
             \cup {PlaceholderId(c, id) : c \in Mappers,
                                          id \in 1 .. (NMappers + MaxAdded)}

\* an entry of _props: the key, the property object, its class (a
\* ColumnProperty, a ConcreteInheritedProperty or another MapperProperty) and
\* the columns of a ColumnProperty
Property(k, id, kind, cols) == [key |-> k, by |-> id, kind |-> kind, cols |-> cols]

\* prop.parent
ParentOf(id) == IF id \in Mappers THEN id
                ELSE IF id >= 10 THEN id % 10
                ELSE prop_parent[id]

Keys(ps) == [i \in 1 .. Len(ps) |-> ps[i].key]
HasKey(ps, k) == \E i \in 1 .. Len(ps) : ps[i].key = k
GetProp(ps, k) == ps[CHOOSE i \in 1 .. Len(ps) : ps[i].key = k]
Owned(m) == {props[m][i].by : i \in 1 .. Len(props[m])}

\* line 1783: self._props[key] = prop, on an OrderedDict: a key that is
\* present keeps its place
SetProp(ps, e) ==
    IF HasKey(ps, e.key)
    THEN [i \in 1 .. Len(ps) |-> IF ps[i].key = e.key THEN e ELSE ps[i]]
    ELSE Append(ps, e)

\* lines 1746-1747: column in self._columntoproperty
MapsColumn(ps, c) ==
    \E i \in 1 .. Len(ps) : \E j \in 1 .. Len(ps[i].cols) : ps[i].cols[j] = c
PropertyOfColumn(ps, c) ==
    ps[CHOOSE i \in 1 .. Len(ps) :
         /\ \E j \in 1 .. Len(ps[i].cols) : ps[i].cols[j] = c
         /\ \A k \in (i + 1) .. Len(ps) :
              \A j \in 1 .. Len(ps[k].cols) : ps[k].cols[j] # c]

\* lines 2621-2662: _should_exclude(), for a class without descriptors of its
\* own and a mapper without include_properties
ShouldExclude(m, name) == name \in exclude_properties[m]

\* lines 1670-1679: descriptor_props.ConcreteInheritedProperty()
ConcreteInherited(c, e) == Property(e.key, PlaceholderId(c, e.by), "concrete", <<>>)

\* lines 1652-1679: _adapt_inherited_property(key, prop, init), during the
\* construction of the mapper (it has no inheriting mappers yet) and for a
\* class whose attribute resolves to the ancestor's
AdaptInherited(m, ps, e) ==
    IF ~concrete[m] THEN SetProp(ps, e)
    ELSE IF ~HasKey(ps, e.key) THEN SetProp(ps, ConcreteInherited(m, e))
    ELSE ps

InheritsAlways(m, ps, e) == TRUE

\* lines 1424-1427: key not in self._props and not self._should_exclude(...)
Inherits(m, ps, e) == ~HasKey(ps, e.key) /\ ~ShouldExclude(m, e.key)

\* lines 1422-1429: the loop over self.inherits._props.items()
RECURSIVE PullInherited(_, _, _)
PullInherited(m, ps, rest) ==
    IF rest = <<>> THEN ps
    ELSE PullInherited(m,
                       IF Inherits(m, ps, Head(rest))
                       THEN AdaptInherited(m, ps, Head(rest))
                       ELSE ps,
                       Tail(rest))

\* the properties dictionary given to the constructor, in its order: a
\* relationship "r", a ColumnProperty "y" over column x of the mapper's last
\* table, and a property "x" that is not a ColumnProperty
ExplicitKeys == <<"r", "y", "x">>
ExplicitProperty(m, k) ==
    IF k = "y"
    THEN Property(k, m, "column",
                  <<Column(persist_selectable[m].tables[
                             Len(persist_selectable[m].tables)], "x")>>)
    ELSE Property(k, m, "other", <<>>)

\* lines 1418-1420: the loop over self._init_properties.items()
RECURSIVE LoadExplicit(_, _, _)
LoadExplicit(m, ps, rest) ==
    IF rest = <<>> THEN ps
    ELSE LoadExplicit(m,
                      IF Head(rest) \in init_properties[m]
                      THEN SetProp(ps, ExplicitProperty(m, Head(rest)))
                      ELSE ps,
                      Tail(rest))

\* lines 696-700 and 2696-2700: the mappers from m to its root, in order
RECURSIVE ToRootSeq(_)
ToRootSeq(m) == IF m = None THEN <<>> ELSE <<m>> \o ToRootSeq(inherits[m])

\* lines 1447-1451: the key an ancestor maps the column under
RECURSIVE AdjustedKey(_, _, _)
AdjustedKey(k, c, ms) ==
    IF ms = <<>> THEN k
    ELSE AdjustedKey(IF MapsColumn(props[Head(ms)], c)
                     THEN PropertyOfColumn(props[Head(ms)], c).key
                     ELSE k,
                     c, Tail(ms))

\* lines 1812-1818: _inherits_equated_pairs holds the key columns the join
\* to the parent equates; shares_lineage() holds for a column and itself
Equated(m, c, d) ==
    \/ c = d
    \/ /\ persist_selectable[m].by = m
       /\ c.name = "id"
       /\ d.name = "id"

\* lines 1798-1880: _property_from_column(key, column): the property, or
\* the exception raised
PropertyFromColumn(m, ps, k, c) ==
    IF ~HasKey(ps, k) \/ GetProp(ps, k).kind = "concrete"
    THEN [error |-> "none", prop |-> Property(k, m, "column", <<c>>)]
    ELSE IF GetProp(ps, k).kind = "column"
    THEN IF /\ ~Equated(m, GetProp(ps, k).cols[1], c)
            /\ ParentOf(GetProp(ps, k).by) = m
         THEN [error |-> "InvalidRequestError", prop |-> GetProp(ps, k)]
         ELSE [error |-> "none",
               prop |-> Property(k, m, "column", <<c>> \o GetProp(ps, k).cols)]
    ELSE [error |-> "ArgumentError", prop |-> GetProp(ps, k)]

\* lines 1434-1445: the columns the loop passes over
Skips(m, ps, c) == MapsColumn(ps, c) \/ ShouldExclude(m, c.name)

\* lines 1433-1455: the loop over self.persist_selectable.columns; it stops
\* at the first exception
RECURSIVE MapColumns(_, _, _)
MapColumns(m, ps, rest) ==
    IF rest = <<>> THEN [error |-> "none", props |-> ps]
    ELSE LET c == Head(rest)
             k == AdjustedKey(c.name, c, Tail(ToRootSeq(m)))
             r == PropertyFromColumn(m, ps, k, c)
         IN IF Skips(m, ps, c) THEN MapColumns(m, ps, Tail(rest))
            ELSE IF r.error # "none" THEN [error |-> r.error, props |-> ps]
            ELSE MapColumns(m, SetProp(ps, r.prop), Tail(rest))

\* lines 1402-1455: _configure_properties()
ConfigureProperties(m) ==
    MapColumns(m,
               PullInherited(m, LoadExplicit(m, <<>>, ExplicitKeys),
                             IF inherits[m] = None THEN <<>>
                             ELSE props[inherits[m]]),
               SelectableColumns(persist_selectable[m].tables))

\* lines 1783 and 1788-1789: self._props[key] = prop, and
\* _adapt_inherited_property(key, prop, init) on every inheriting mapper,
\* which configures the property, or a ConcreteInheritedProperty, there
RECURSIVE ConfigureProperty(_, _, _)
RECURSIVE AdaptChildren(_, _, _)
ConfigureProperty(pr, m, e) ==
    AdaptChildren([pr EXCEPT ![m] = SetProp(@, e)], inheriting_mappers[m], e)
AdaptChildren(pr, cs, e) ==
    IF cs = <<>> THEN pr
    ELSE LET c == Head(cs) IN
         AdaptChildren(IF ~concrete[c] THEN ConfigureProperty(pr, c, e)
                       ELSE IF ~HasKey(pr[c], e.key)
                       THEN ConfigureProperty(pr, c, ConcreteInherited(c, e))
                       ELSE pr,
                       Tail(cs), e)

\* the mappers _configure_property() runs on
RECURSIVE Touched(_, _)
RECURSIVE TouchedUnder(_, _)
Touched(m, e) == {m} \cup TouchedUnder(inheriting_mappers[m], e)
TouchedUnder(cs, e) ==
    IF cs = <<>> THEN {}
    ELSE LET c == Head(cs) IN
         (IF ~concrete[c] THEN Touched(c, e)
          ELSE IF ~HasKey(props[c], e.key) THEN Touched(c, ConcreteInherited(c, e))
          ELSE {})
           \cup TouchedUnder(Tail(cs), e)

\* lines 1791-1793: init is passed on to a ConcreteInheritedProperty only:
\* the calls of prop.init() that a call with init=True makes, each with the
\* mapper that makes it
RECURSIVE InitedBy(_, _)
RECURSIVE InitedUnder(_, _)
InitedBy(m, e) == {<<m, e.by>>} \cup InitedUnder(inheriting_mappers[m], e)
InitedUnder(cs, e) ==
    IF cs = <<>> THEN {}
    ELSE LET c == Head(cs) IN
         (IF concrete[c] /\ ~HasKey(props[c], e.key)
          THEN InitedBy(c, ConcreteInherited(c, e))
          ELSE {})
           \cup InitedUnder(Tail(cs), e)

\* lines 1795-1796: if self.configured: self._expire_memoizations(), on
\* every mapper the property was configured on
ExpiredBy(ms) ==
    {x \in Mappers : \E y \in ms : configured[y] /\ x \in ToRoot(y)}

\* line 1168: self.inherits.polymorphic_map.update(self.polymorphic_map)
MergedMap(into, from) ==
    [i \in Identities |-> IF from[i] # None THEN from[i] ELSE into[i]]

\* lines 1173-1175: for mp in self.self_and_descendants:
\* mp.base_mapper = self.inherits.base_mapper
Rebased(m, p) ==
    [x \in Mappers |-> IF x \in SelfAndDescendants(m) THEN base_mapper[p]
                       ELSE base_mapper[x]]

\* the asserts of lines 1164-1166, and the caller's choice of a base: the
\* mapper of a superclass that is not below the mapper itself
CanSetConcreteBase(m, p) ==
    /\ mstatus[m] = "constructed"
    /\ mstatus[p] = "constructed"
    /\ concrete[m]
    /\ inherits[m] = None
    /\ p \notin ComputedDescendants(m)
    /\ class_[p] # class_[m]
    /\ IsSubclass(class_[m], class_[p])

\* lines 1170 and 1181: the loop variable of line 1170 is the argument of
\* the method; after the loop it is the root above the new parent, whose
\* _props line 1181 reads
BaseProps(p) == props[ToRootSeq(p)[Len(ToRootSeq(p))]]

\* line 1182: key not in self._props and not self._should_exclude(...)
AdaptsFromBase(pr, m, e) == ~HasKey(pr[m], e.key) /\ ~ShouldExclude(m, e.key)

\* lines 1181-1185: _adapt_inherited_property(key, prop, False), on a
\* concrete mapper
RECURSIVE AdaptFromBase(_, _, _)
AdaptFromBase(pr, m, rest) ==
    IF rest = <<>> THEN pr
    ELSE AdaptFromBase(IF AdaptsFromBase(pr, m, Head(rest))
                       THEN ConfigureProperty(pr, m,
                                              ConcreteInherited(m, Head(rest)))
                       ELSE pr,
                       m, Tail(rest))

\* lines 1795-1796, from line 1185: a configured mapper that is given a
\* property expires its memoizations and those of the mappers above it,
\* the new parent among them
ExpiredByBase(m, p) ==
    LET es == {BaseProps(p)[i] : i \in 1 .. Len(BaseProps(p))}
        new == {e \in es : AdaptsFromBase(props, m, e)}
        on == UNION {Touched(m, ConcreteInherited(m, e)) : e \in new}
    IN {x \in Mappers :
          \E y \in on : /\ configured[y]
                         /\ \/ x \in ToRoot(y)
                            \/ m \in ToRoot(y) /\ x \in ToRoot(p)}

\* lines 1159-1184: Mapper._set_concrete_base(mapper)
SetConcreteBase(m, p) ==
    /\ inherits' = [inherits EXCEPT ![m] = p]
    /\ pmaps' = [pmaps EXCEPT ![pmap_of[p]] = MergedMap(@, pmaps[pmap_of[m]])]
    /\ pmap_of' = [pmap_of EXCEPT ![m] = pmap_of[p]]
    /\ base_mapper' = Rebased(m, p)
    /\ inheriting_mappers' = [inheriting_mappers EXCEPT ![p] = Append(@, m)]
    /\ batch' = [batch EXCEPT ![m] = batch[p]]
    /\ passive_updates' = [passive_updates EXCEPT ![m] = passive_updates[p]]
    /\ props' = AdaptFromBase(props, m, BaseProps(p))
    /\ memoized' = [x \in Mappers |->
                      IF x \in ExpiredByBase(m, p) THEN {}
                      ELSE IF x = m THEN SelfAndDescendants(m)
                      ELSE memoized[x]]
    /\ criterion' = [x \in Mappers |->
                       IF x \in ExpiredByBase(m, p) THEN NoCriterion
                       ELSE criterion[x]]
    /\ UNCHANGED <<class_, polymorphic_identity, with_polymorphic,
                   passive_deletes, polymorphic_on>>

\* the identities the merge of line 1168 binds to another mapper
ReboundBy(m, p) ==
    {i \in Identities : /\ pmaps[pmap_of[m]][i] # None
                        /\ pmaps[pmap_of[p]][i] # None
                        /\ pmaps[pmap_of[m]][i] # pmaps[pmap_of[p]][i]}

\* line 3364: Mapper.dispatch._for_class(Mapper).before_configured(); a
\* listener may raise, may call _configure_registries(), may read the
\* self_and_descendants of a mapper, and the listener of a declarative
\* concrete base gives concrete mappers their base, one after the other
before_configured(t) ==
    /\ AtPc(t, "configure", "before")
    /\ LET f == [Top(t) EXCEPT !.nBefore = Saturate(@)] IN
       \/ /\ stack' = SetTop(t, [f EXCEPT !.pc = "recurse", !.todo = f.regs])
          /\ UNCHANGED <<ret, chainvars, memoized, flagvars, criterion>>
       \/ /\ "raise" \in inputs.hooks
          /\ \E e \in Raisable(None) :
               stack' = SetTop(t, Raise(f, e, None, "before_configured"))
          /\ UNCHANGED <<ret, chainvars, memoized, flagvars, criterion>>
       \/ /\ HookCalls(t, f, "before_call")
          /\ UNCHANGED <<chainvars, memoized, flagvars, criterion>>
       \/ /\ inputs.declare_first
          /\ \E m \in Mappers, p \in Mappers :
               /\ CanSetConcreteBase(m, p)
               /\ SetConcreteBase(m, p)
               /\ stack' = SetTop(t, [Top(t) EXCEPT
                                        !.based = m,
                                        !.rebound = @ \cup ReboundBy(m, p)])
          /\ UNCHANGED ret
       \/ /\ inputs.declare_first
          /\ \E m \in Mappers :
               /\ mstatus[m] = "constructed"
               /\ memoized[m] = {}
               /\ memoized' = [memoized EXCEPT ![m] = ComputedDescendants(m)]
          /\ UNCHANGED <<stack, ret, chainvars, flagvars, criterion>>
    /\ UNCHANGED <<inputs, threads, orphanvars, dialectvars, cascadevars, propvars, tablevars, mutex, already_compiling,
                   regvars, mstatus, cfgvars, histvars, caught>>

\* line 3414: hasattr(exc, "_configure_failed")
HasMarker(e) == e.cf # 0

RecordFailureNever(m, e) == configure_failed

\* lines 3412-3415: the except clause around the finishing of one mapper
RecordFailure(m, e) ==
    IF HasMarker(e) THEN configure_failed
    ELSE [configure_failed EXCEPT ![m] = e]

\* a hook's own call of _configure_registries has returned
HookReturn(t) ==
    /\ t \in threads
    /\ ~Idle(t)
    /\ Top(t).kind = "configure"
    /\ Top(t).pc \in {"before_call", "bmc_call", "mc_call"}
    /\ ret[t].kind = "configure"
    /\ LET f == Top(t)
           e == ret[t].exc
       IN /\ stack' = SetTop(t,
               IF e # NoExc
               THEN Raise(f, e, f.m,
                          CASE f.pc = "before_call" -> "before_configured"
                            [] f.pc = "bmc_call" -> "bmc"
                            [] OTHER -> "mapper_configured")
               ELSE IF f.pc = "before_call"
                    THEN [f EXCEPT !.pc = "recurse", !.todo = f.regs]
               ELSE IF f.pc = "bmc_call"
                    THEN [f EXCEPT !.pc = "bmc", !.hook = @ + 1]
               ELSE [f EXCEPT !.pc = "nextmapper"])
          /\ configure_failed' =
               IF e # NoExc /\ f.pc = "mc_call"
               THEN RecordFailure(f.m, e) ELSE configure_failed
    /\ UNCHANGED <<inputs, threads, orphanvars, dialectvars, cascadevars, flagvars, propvars, criterion, memoized, tablevars, ret, mutex, already_compiling, regvars, mstatus,
                   chainvars, configured, ready_for_configure, dispose_called,
                   configure_started, configure_finished, histvars, caught>>

\* registry._recurse_with_dependencies(registries): when the generator is
\* resumed it adds the dependencies the registry has gained meanwhile
AfterYield(f) ==
    IF f.reg = None THEN f.todo
    ELSE f.todo \cup (dependencies[f.reg] \ f.done)

\* registry._recurse_with_dependencies(registries): one registry is yielded
RecurseStep(f, r) ==
    LET d == f.done \cup {r} IN
    [f EXCEPT !.done = d,
              !.todo = (f.todo \ {r}) \cup (dependencies[r] \ d),
              !.reg = r, !.has_skip = FALSE, !.pend = managers[r],
              !.pc = "nextmapper"]

\* line 3383: for reg in registry._recurse_with_dependencies(registries)
NextRegistry(t) ==
    /\ AtPc(t, "configure", "recurse")
    /\ LET f == [Top(t) EXCEPT !.todo = AfterYield(Top(t))] IN
       IF f.todo = {}
       THEN stack' = SetTop(t, [f EXCEPT !.pc = "finally"])
       ELSE \E r \in f.todo : stack' = SetTop(t, RecurseStep(f, r))
    /\ UNCHANGED <<inputs, threads, orphanvars, dialectvars, cascadevars, flagvars, propvars, criterion, memoized, tablevars, ret, mutex, already_compiling, regvars, mstatus,
                   chainvars, cfgvars, histvars, caught>>

\* line 3386: for mapper in reg._mappers_to_configure()
NextMapper(t) ==
    /\ AtPc(t, "configure", "nextmapper")
    /\ LET f == Top(t)
           cands == {c \in f.pend : ToConfigure(c)}
       IN
       IF cands = {}
       THEN stack' = SetTop(t, [f EXCEPT !.pc = "endreg", !.pend = {},
                                         !.m = None])
       ELSE \E c \in cands :
              stack' = SetTop(t, [f EXCEPT !.pend = @ \ {c},
                                           !.m = manager_mapper[c],
                                           !.hook = 1,
                                           !.seen = @ \cup {manager_mapper[c]},
                                           !.pc = "bmc"])
    /\ UNCHANGED <<inputs, threads, orphanvars, dialectvars, cascadevars, flagvars, propvars, criterion, memoized, tablevars, ret, mutex, already_compiling, regvars, mstatus,
                   chainvars, cfgvars, histvars, caught>>

SkipMapperUnflagged(f) ==
    [f EXCEPT !.hooksRun[f.m] = @ + 1, !.skipAt[f.m] = f.hook,
              !.pc = "nextmapper"]

\* lines 3390-3394: the hook returned EXT_SKIP
SkipMapper(f) ==
    [f EXCEPT !.hooksRun[f.m] = @ + 1, !.skipAt[f.m] = f.hook,
              !.has_skip = TRUE, !.pc = "nextmapper"]

\* lines 3387-3394: the before_mapper_configured hooks of the mapper
before_mapper_configured(t) ==
    /\ AtPc(t, "configure", "bmc")
    /\ LET f == Top(t)
           g == [f EXCEPT !.hooksRun[f.m] = @ + 1]
       IN
       IF f.hook > NHooks
       THEN /\ stack' = SetTop(t, [f EXCEPT !.pc = "failcheck"])
            /\ UNCHANGED ret
       ELSE \/ /\ stack' = SetTop(t, [g EXCEPT !.hook = @ + 1])
               /\ UNCHANGED ret
            \/ /\ "skip" \in inputs.hooks
               /\ stack' = SetTop(t, SkipMapper(f))
               /\ UNCHANGED ret
            \/ /\ "raise" \in inputs.hooks
               /\ \E e \in Raisable(f.m) :
                    stack' = SetTop(t, Raise(g, e, f.m, "bmc"))
               /\ UNCHANGED ret
            \/ HookCalls(t, g, "bmc_call")
    /\ UNCHANGED <<inputs, threads, orphanvars, dialectvars, cascadevars, flagvars, propvars, criterion, memoized, tablevars, mutex, already_compiling, regvars, mstatus,
                   chainvars, cfgvars, histvars, caught>>

HasConfigureFailedNever(m) == FALSE

\* line 3396: getattr(mapper, "_configure_failed", False)
HasConfigureFailed(m) == configure_failed[m] # NoExc

\* lines 3397-3405: the error that chains the recorded failure
ChainedError(m) ==
    [name |-> "InvalidRequestError", id |-> 0, cf |-> configure_failed[m].id]

\* lines 3396-3407: a recorded failure stops the pass; a configured mapper
\* is passed over
FailCheck(t) ==
    /\ AtPc(t, "configure", "failcheck")
    /\ LET f == Top(t) IN
       stack' = SetTop(t,
         IF HasConfigureFailed(f.m)
         THEN Raise(f, ChainedError(f.m), f.m, "failcheck")
         ELSE IF ~configured[f.m] THEN [f EXCEPT !.pc = "post"]
         ELSE [f EXCEPT !.pc = "nextmapper"])
    /\ UNCHANGED <<inputs, threads, orphanvars, dialectvars, cascadevars, flagvars, propvars, criterion, memoized, tablevars, ret, mutex, already_compiling, regvars, mstatus,
                   chainvars, cfgvars, histvars, caught>>

\* registry._set_depends_on(registry), called by the init() of a
\* relationship whose target is mapped in another registry
SetDependsOn(r, d) ==
    /\ dependencies' = IF d = None \/ d = r THEN dependencies
                       ELSE [dependencies EXCEPT ![r] = @ \cup {d}]
    /\ dependents' = IF d = None \/ d = r THEN dependents
                     ELSE [dependents EXCEPT ![d] = @ \cup {r}]

MarkConfiguredNever(m) == configured

\* line 1906: self.configured = True
MarkConfigured(m) == [configured EXCEPT ![m] = TRUE]

\* line 1899: prop.parent is self and not prop._configure_started
NeedsInit(id, m) == ParentOf(id) = m /\ ~configure_started[id]

\* lines 1895-1900: the properties whose init() the loop over _props calls,
\* in the order of the loop
RECURSIVE ToInit(_, _, _)
ToInit(m, ps, seen) ==
    IF ps = <<>> THEN <<>>
    ELSE IF NeedsInit(Head(ps).by, m) /\ Head(ps).by \notin seen
    THEN <<Head(ps).by>> \o ToInit(m, Tail(ps), seen \cup {Head(ps).by})
    ELSE ToInit(m, Tail(ps), seen)

Upto(q, k) == {q[i] : i \in 1 .. k}

\* lines 3409-3410 and 1885-1906: _post_configure_properties() calls init()
\* on the properties the mapper owns and sets configured, then
\* _expire_memoizations(); init() may raise
post_configure_properties(t) ==
    /\ AtPc(t, "configure", "post")
    /\ LET f == [Top(t) EXCEPT !.posted = @ \cup {Top(t).m}]
           m == Top(t).m
           q == ToInit(m, props[m], {})
           ini == q # <<>>
       IN
       /\ postCount' = [postCount EXCEPT ![m] = Saturate(@)]
       /\ IF ini
          THEN \E d \in (Registries \cup {None}) \cap inputs.depends :
                 SetDependsOn(RegistryOf(class_[m]), d)
          ELSE UNCHANGED <<dependencies, dependents>>
       /\ \/ /\ initCount' = [id \in PropIds |->
                                IF id \in Upto(q, Len(q))
                                THEN Saturate(initCount[id])
                                ELSE initCount[id]]
             /\ initFor' = [id \in PropIds |->
                              IF id \in Upto(q, Len(q))
                              THEN initFor[id] \cup {m} ELSE initFor[id]]
             /\ configure_started' = [id \in PropIds |->
                                        \/ configure_started[id]
                                        \/ id \in Upto(q, Len(q))]
             /\ configure_finished' = [id \in PropIds |->
                                         \/ configure_finished[id]
                                         \/ id \in Upto(q, Len(q))]
             /\ configured' = MarkConfigured(m)
             /\ stack' = SetTop(t, [f EXCEPT !.pc = "mc",
                                             !.inited = IF ini THEN @ \cup {m}
                                                        ELSE @,
                                             !.cfgd = @ \cup {m}])
             /\ memoized' = ExpireMemoizations(m)
             /\ criterion' = ExpireCriterion(m)
             /\ UNCHANGED configure_failed
          \/ /\ ini
             /\ "raise" \in inputs.hooks
             /\ \E e \in Raisable(m), k \in 1 .. Len(q) :
                  /\ stack' = SetTop(t, Raise(f, e, m, "init"))
                  /\ configure_failed' = RecordFailure(m, e)
                  /\ initCount' = [id \in PropIds |->
                                     IF id \in Upto(q, k)
                                     THEN Saturate(initCount[id])
                                     ELSE initCount[id]]
                  /\ initFor' = [id \in PropIds |->
                                   IF id \in Upto(q, k)
                                   THEN initFor[id] \cup {m} ELSE initFor[id]]
                  /\ configure_started' = [id \in PropIds |->
                                             \/ configure_started[id]
                                             \/ id \in Upto(q, k)]
                  /\ configure_finished' = [id \in PropIds |->
                                              \/ configure_finished[id]
                                              \/ id \in Upto(q, k - 1)]
             /\ UNCHANGED <<configured, memoized, criterion>>
    /\ UNCHANGED <<inputs, threads, orphanvars, dialectvars, cascadevars, flagvars, propvars, tablevars, ret, mutex,
                   already_compiling, new_mappers, managers, manager_mapper,
                   mstatus, chainvars, ready_for_configure, dispose_called,
                   mcCount, caught>>

\* line 3411: mapper.dispatch.mapper_configured(mapper, mapper.class_)
mapper_configured(t) ==
    /\ AtPc(t, "configure", "mc")
    /\ LET f == [Top(t) EXCEPT !.mcd = @ \cup {Top(t).m}]
           m == Top(t).m
       IN
       /\ mcCount' = [mcCount EXCEPT ![m] = Saturate(@)]
       /\ \/ /\ stack' = SetTop(t, [f EXCEPT !.pc = "nextmapper"])
             /\ UNCHANGED <<ret, configure_failed>>
          \/ /\ "raise" \in inputs.hooks
             /\ \E e \in Raisable(m) :
                  /\ stack' = SetTop(t, Raise(f, e, m, "mapper_configured"))
                  /\ configure_failed' = RecordFailure(m, e)
             /\ UNCHANGED ret
          \/ /\ HookCalls(t, f, "mc_call")
             /\ UNCHANGED configure_failed
    /\ UNCHANGED <<inputs, threads, orphanvars, dialectvars, cascadevars, flagvars, propvars, criterion, memoized, tablevars, mutex, already_compiling, regvars, mstatus,
                   chainvars, configured, ready_for_configure, dispose_called,
                   configure_started, configure_finished, initCount, initFor,
                   postCount, caught>>

ClearNewMappersNever(f) == new_mappers

\* lines 3417-3418: if not has_skip: reg._new_mappers = False
ClearNewMappers(f) ==
    IF f.has_skip THEN new_mappers
    ELSE [new_mappers EXCEPT ![f.reg] = FALSE]

\* lines 3417-3424: the end of one registry
EndRegistry(t) ==
    /\ AtPc(t, "configure", "endreg")
    /\ LET f == Top(t)
           g == [f EXCEPT !.cleared = IF f.has_skip THEN @ ELSE @ \cup {f.reg}]
       IN
       /\ new_mappers' = ClearNewMappers(f)
       /\ stack' = SetTop(t,
            IF ~f.cascade /\ (dependencies[f.reg] \ f.regs) # {}
            THEN Raise(g, PlainExc("InvalidRequestError", None), None, "cascade")
            ELSE [g EXCEPT !.pc = "recurse"])
    /\ UNCHANGED <<inputs, threads, orphanvars, dialectvars, cascadevars, flagvars, propvars, criterion, memoized, tablevars, ret, mutex, already_compiling, dependencies,
                   dependents, managers, manager_mapper, mstatus, chainvars,
                   cfgvars, histvars, caught>>

CompletedAlways(f) == TRUE

\* lines 3370-3373: the statement after the with-block is reached only
\* when no exception leaves it
Completed(f) == f.exc = NoExc

FlagKeptOnError(f) == f.exc # NoExc

\* lines 3371-3372: finally: _already_compiling = False
FlagAfterPass(f) == FALSE

\* lines 3371-3372: finally: _already_compiling = False, the mutex is
\* released; an exception leaves the call
Finally(t) ==
    /\ AtPc(t, "configure", "finally")
    /\ LET f == Top(t) IN
       /\ already_compiling' = FlagAfterPass(f)
       /\ mutex' = Released(mutex)
       /\ IF Completed(f)
          THEN /\ stack' = SetTop(t, [f EXCEPT !.pc = "after"])
               /\ UNCHANGED <<ret, caught>>
          ELSE Return(t, f)
    /\ UNCHANGED <<inputs, threads, orphanvars, dialectvars, cascadevars, flagvars, propvars, criterion, memoized, tablevars, regvars, mstatus, chainvars, cfgvars, histvars>>

\* line 3373: Mapper.dispatch._for_class(Mapper).after_configured()
after_configured(t) ==
    /\ AtPc(t, "configure", "after")
    /\ Return(t, [Top(t) EXCEPT !.nAfter = Saturate(@)])
    /\ UNCHANGED <<inputs, threads, orphanvars, dialectvars, cascadevars, flagvars, propvars, criterion, memoized, tablevars, mutex, already_compiling, regvars, mstatus,
                   chainvars, cfgvars, histvars>>

\* ---- Mapper.__init__ ---------------------------------------------------------
LoadArgs == {"none", "inline", "selectin", "bogus"}
\* what the mapped class and its tables make a later step raise
FailArgs == {"none", "validators", "properties", "polymorphic_setter", "pks"}
Built == {m \in Mappers : mstatus[m] \in {"constructed", "disposed"}}
Absent == {m \in Mappers : mstatus[m] = "absent" /\ m <= inputs.slots}

\* a selectable: a table is itself (by = 0); sql.join() makes a new object,
\* named here by the mapper that made it
NoSelectable == [by |-> None, tables |-> <<>>, on |-> "none"]
TableSelectable(tb) == [by |-> None, tables |-> <<tb>>, on |-> "none"]
JoinSelectable(m, left, tb, on) ==
    [by |-> m, tables |-> Append(left.tables, tb), on |-> on]
SelectableOf(tb) == IF tb = None THEN NoSelectable ELSE TableSelectable(tb)

\* a primary key: the tuple a mapper derived, from its primary_key argument
\* or from the primary key of its persist_selectable
NoPrimaryKey == [by |-> None, from |-> "none"]

\* the local_table arguments open to a mapper: none, a table of its own
\* (named by the mapper), or the local table of its parent
LocalTableArgs(m, inh) ==
    (IF "none" \in inputs.tables THEN {None} ELSE {})
      \cup (IF "own" \in inputs.tables THEN {m} ELSE {})
      \cup (IF "parent" \in inputs.tables /\ inh # None
            THEN {local_table[inh]} ELSE {})

\* the _polymorphic_map arguments open to a mapper
MapArgs == IF inputs.maps THEN {None} \cup {pmap_of[x] : x \in Built}
           ELSE {None}

\* whether join-condition inference would run: lines 976-986
InfersCondition(inh, tb, conc, cond) ==
    /\ inh # None
    /\ tb # None
    /\ tb # local_table[inh]
    /\ ~conc
    /\ ~cond

\* the polymorphic_on argument: column x of the table the mapper is mapped to
DiscriminatorOf(tb, inh) ==
    IF tb # None THEN Column(tb, "x")
    ELSE IF inh # None THEN Column(local_table[inh], "x")
    ELSE NoColumn

ConstructFrame(m, c, inh, ident, load, fail) ==
    [NoFrame EXCEPT !.kind = "construct", !.pc = "lock", !.m = m,
       !.arg_class = c, !.arg_inherits = inh, !.arg_identity = ident,
       !.arg_load = load, !.arg_fail = fail]

\* lines 560-652: the assignments before the mutex is taken
Construct(t) ==
    /\ t \in threads
    /\ Idle(t)
    /\ Absent # {}
    /\ LET m == CHOOSE x \in Absent : \A y \in Absent : x <= y IN
       \E c \in (IF inputs.own_class THEN {m} ELSE 1 .. inputs.slots),
          inh \in Built \cup {None},
          ident \in inputs.identities, load \in inputs.loads,
          fail \in inputs.fails, conc \in inputs.concretes,
          cond \in inputs.conds, pkarg \in inputs.pkargs, mp \in MapArgs,
          b \in inputs.batches, pu \in inputs.updates, pd \in inputs.deletes,
          on \in inputs.discriminators, ip \in inputs.properties,
          ex \in inputs.excludes, leg \in inputs.legacies :
         \E tb \in LocalTableArgs(m, inh) :
         \E fks \in (IF InfersCondition(inh, tb, conc, cond)
                     THEN inputs.fks ELSE {0}) :
         /\ cond => (inh # None /\ tb # None /\ tb # local_table[inh] /\ ~conc)
         /\ mp # None => inh = None
         /\ stack' = Push(t, [ConstructFrame(m, c, inh, ident, load, fail)
                                EXCEPT !.arg_fks = fks, !.arg_cond = cond,
                                       !.arg_pkarg = pkarg, !.arg_batch = b,
                                       !.arg_passive_updates = pu,
                                       !.arg_passive_deletes = pd])
         /\ ret' = [ret EXCEPT ![t] = NoFrame]
         /\ mstatus' = [mstatus EXCEPT ![m] = "constructing"]
         /\ class_' = [class_ EXCEPT ![m] = c]
         /\ inherits' = [inherits EXCEPT ![m] = inh]
         /\ polymorphic_identity' = [polymorphic_identity EXCEPT ![m] = ident]
         /\ concrete' = [concrete EXCEPT ![m] = conc]
         /\ single' = [single EXCEPT ![m] = FALSE]
         /\ local_table' = [local_table EXCEPT ![m] = tb]
         /\ pmap_of' = [pmap_of EXCEPT ![m] = IF mp = None THEN m ELSE mp]
         /\ batch' = [batch EXCEPT ![m] = b]
         /\ passive_updates' = [passive_updates EXCEPT ![m] = pu]
         /\ passive_deletes' = [passive_deletes EXCEPT ![m] = pd]
         /\ polymorphic_on' = [polymorphic_on EXCEPT ![m] =
                                 IF on THEN DiscriminatorOf(tb, inh)
                                 ELSE NoColumn]
         /\ init_properties' = [init_properties EXCEPT ![m] = ip]
         /\ exclude_properties' = [exclude_properties EXCEPT ![m] = ex]
         /\ legacy_is_orphan' = [legacy_is_orphan EXCEPT ![m] = leg]
    /\ UNCHANGED <<inputs, threads, delete_orphans, dialectvars, cascadevars, prop_parent, criterion, memoized, mutex,
                   already_compiling, regvars, pmaps,
                   inheriting_mappers, base_mapper, with_polymorphic, props,
                   persist_selectable, primary_key, cfgvars, histvars, caught>>

\* the with-block of line 657 is left by an exception
ConstructRaises(t, f, e, mx) ==
    /\ mutex' = Released(mx)
    /\ mstatus' = [mstatus EXCEPT ![f.m] = "raised"]
    /\ Return(t, [f EXCEPT !.exc = e])

\* lines 1150-1157: _add_with_polymorphic_subclass(mapper)
AddWithPolymorphicSubclass(wp, p, c) ==
    [wp EXCEPT ![p] = Append(@, c)]

SetIdentityIfAbsent(pm, b, ident, m) ==
    IF pm[b][ident] = None THEN [pm EXCEPT ![b][ident] = m] ELSE pm

\* lines 1093 and 1115: self.polymorphic_map[self.polymorphic_identity] = self
SetIdentity(pm, b, ident, m) == [pm EXCEPT ![b][ident] = m]

\* lines 1070-1093: the links into the parent's chain
LinkToParent(m, p, ident) ==
    /\ pmap_of' = [pmap_of EXCEPT ![m] = pmap_of[p]]
    /\ inheriting_mappers' = [inheriting_mappers EXCEPT ![p] = Append(@, m)]
    /\ base_mapper' = [base_mapper EXCEPT ![m] = base_mapper[p]]
    /\ pmaps' = IF ident # "none"
                THEN SetIdentity(pmaps, pmap_of[p], ident, m)
                ELSE pmaps

\* lines 1080-1092: util.warn("Reassigning polymorphic association ...")
Warns(b, ident) == ident # "none" /\ pmaps[b][ident] # None

RaisedForClassOnly(f) ==
    IF f.arg_inherits # None /\ ~IsSubclass(f.arg_class, class_[f.arg_inherits])
    THEN "ArgumentError" ELSE "none"

\* lines 960-964 and 986-1028: what _configure_inheritance raises before it
\* touches the parent
RaisedBeforeLink(f) ==
    LET p == f.arg_inherits IN
    IF p = None THEN "none"
    ELSE IF ~IsSubclass(f.arg_class, class_[p]) THEN "ArgumentError"
    ELSE IF ~InfersCondition(p, local_table[f.m], concrete[f.m], f.arg_cond)
    THEN "none"
    ELSE IF f.arg_fks = 0 THEN "NoForeignKeysError"
    ELSE IF f.arg_fks > 1 THEN "AmbiguousForeignKeysError"
    ELSE "none"

\* lines 1095-1108 and 1118-1122: what it raises after the polymorphic map
\* was written
RaisedAfterLink(f) ==
    IF f.arg_inherits # None
    THEN IF f.arg_load # "none" /\ concrete[f.m] THEN "ArgumentError"
         ELSE IF f.arg_load \notin {"none", "inline", "selectin"}
         THEN "ArgumentError"
         ELSE "none"
    ELSE IF local_table[f.m] = None THEN "ArgumentError"
    ELSE "none"

\* lines 1029-1033: sql.join(inherits.persist_selectable, local_table,
\* inherit_condition)
JoinedSelectable(m, p, cond) ==
    JoinSelectable(m, persist_selectable[p], local_table[m],
                   IF cond THEN "explicit" ELSE "inferred")

\* lines 976-979: no local table: single-table inheritance
SingleTables(m, p) ==
    /\ local_table' = [local_table EXCEPT ![m] = local_table[p]]
    /\ persist_selectable' = [persist_selectable EXCEPT ![m] = persist_selectable[p]]
    /\ single' = [single EXCEPT ![m] = TRUE]

\* lines 975-1042 and 1112: local_table, persist_selectable and single
InheritTables(m, p, cond) ==
    IF p = None
    THEN /\ persist_selectable' = [persist_selectable EXCEPT ![m] =
                                     SelectableOf(local_table[m])]
         /\ UNCHANGED <<local_table, single>>
    ELSE IF local_table[m] = None THEN SingleTables(m, p)
    ELSE /\ persist_selectable' =
              [persist_selectable EXCEPT ![m] =
                 IF local_table[m] # local_table[p] /\ ~concrete[m]
                 THEN JoinedSelectable(m, p, cond)
                 ELSE TableSelectable(local_table[m])]
         /\ UNCHANGED <<local_table, single>>

\* line 1072: self.batch = self.inherits.batch
InheritedBatch(m, p) ==
    IF p = None THEN batch ELSE [batch EXCEPT ![m] = batch[p]]

\* line 1076: self.passive_updates = self.inherits.passive_updates
InheritedPassiveUpdates(m, p) ==
    IF p = None THEN passive_updates
    ELSE [passive_updates EXCEPT ![m] = passive_updates[p]]

PassiveDeletesKept(m, p) == passive_deletes

\* lines 1077-1079: self.passive_deletes = self.inherits.passive_deletes or
\* self.passive_deletes
InheritedPassiveDeletes(m, p) ==
    IF p = None THEN passive_deletes
    ELSE [passive_deletes EXCEPT ![m] = passive_deletes[p] \/ @]

\* lines 657-659 and 950-1122: take the mutex, _configure_inheritance()
configure_inheritance(t) ==
    /\ AtPc(t, "construct", "lock")
    /\ CanAcquire(t)
    /\ LET f == Top(t)
           m == f.m
           p == f.arg_inherits
           b == IF p = None THEN pmap_of[m] ELSE pmap_of[p]
           g == [f EXCEPT !.warned = p # None /\ Warns(b, f.arg_identity),
                          !.prior = IF f.arg_identity = "none" THEN None
                                    ELSE pmaps[b][f.arg_identity]]
       IN
       IF RaisedBeforeLink(f) # "none"
       THEN /\ ConstructRaises(t, f, PlainExc(RaisedBeforeLink(f), m),
                               Acquired(t))
            /\ UNCHANGED <<pmap_of, pmaps, inheriting_mappers, base_mapper,
                           with_polymorphic, local_table, persist_selectable,
                           single, batch, passive_updates, passive_deletes>>
       ELSE /\ InheritTables(m, p, f.arg_cond)
            /\ batch' = InheritedBatch(m, p)
            /\ passive_updates' = InheritedPassiveUpdates(m, p)
            /\ passive_deletes' = InheritedPassiveDeletes(m, p)
            /\ IF p # None
               THEN /\ LinkToParent(m, p, f.arg_identity)
                    /\ with_polymorphic' =
                         IF f.arg_load = "inline" /\ ~concrete[m]
                         THEN AddWithPolymorphicSubclass(with_polymorphic, p,
                                                         f.arg_class)
                         ELSE with_polymorphic
               ELSE /\ base_mapper' = [base_mapper EXCEPT ![m] = m]
                    /\ pmaps' = IF f.arg_identity # "none"
                                THEN SetIdentity(pmaps, b, f.arg_identity, m)
                                ELSE pmaps
                    /\ UNCHANGED <<pmap_of, inheriting_mappers,
                                   with_polymorphic>>
            /\ IF RaisedAfterLink(f) # "none"
               THEN ConstructRaises(t, g, PlainExc(RaisedAfterLink(f), m),
                                    Acquired(t))
               ELSE /\ mutex' = Acquired(t)
                    /\ stack' = SetTop(t, [g EXCEPT !.pc = "instrument"])
                    /\ UNCHANGED <<ret, caught, mstatus>>
    /\ UNCHANGED <<inputs, threads, orphanvars, dialectvars, cascadevars, polymorphic_on, propvars, criterion, memoized,
                   already_compiling, regvars, class_, inherits,
                   polymorphic_identity, props, concrete, primary_key, cfgvars,
                   histvars>>

IsMappedNever(c) == FALSE

\* lines 1221-1223: manager.is_mapped, for the manager of the class
IsMapped(c) == manager_mapper[c] # None

\* lines 1206-1292: _configure_class_instrumentation(): a class that has a
\* primary mapper is refused; register_class() installs the mapper in the
\* manager of the class and the manager in the registry; a duplicate
\* validator raises after that
configure_class_instrumentation(t) ==
    /\ AtPc(t, "construct", "instrument")
    /\ LET f == Top(t)
           c == f.arg_class
       IN
       IF IsMapped(c)
       THEN /\ ConstructRaises(t, f, PlainExc("ArgumentError", f.m), mutex)
            /\ UNCHANGED <<manager_mapper, managers>>
       ELSE /\ manager_mapper' = [manager_mapper EXCEPT ![c] = f.m]
            /\ managers' = [managers EXCEPT ![RegistryOf(c)] = @ \cup {c}]
            /\ IF f.arg_fail = "validators"
               THEN ConstructRaises(t, f, PlainExc("InvalidRequestError", f.m),
                                    mutex)
               ELSE /\ stack' = SetTop(t, [f EXCEPT !.pc = "properties"])
                    /\ UNCHANGED <<ret, caught, mstatus, mutex>>
    /\ UNCHANGED <<inputs, threads, orphanvars, dialectvars, cascadevars, flagvars, propvars, criterion, memoized, tablevars, already_compiling, new_mappers, dependencies,
                   dependents, chainvars, cfgvars, histvars>>

\* lines 1402-1455: _configure_properties()
configure_properties(t) ==
    /\ AtPc(t, "construct", "properties")
    /\ LET f == Top(t) IN
       IF f.arg_fail = "properties"
       THEN /\ ConstructRaises(t, f, PlainExc("InvalidRequestError", f.m), mutex)
            /\ props' = [props EXCEPT ![f.m] =
                           LoadExplicit(f.m, <<>>, ExplicitKeys)]
       ELSE /\ props' = [props EXCEPT ![f.m] = ConfigureProperties(f.m).props]
            /\ IF ConfigureProperties(f.m).error # "none"
               THEN ConstructRaises(t, f,
                                    PlainExc(ConfigureProperties(f.m).error, f.m),
                                    mutex)
               ELSE /\ stack' = SetTop(t, [f EXCEPT !.pc = "polymorphic_setter"])
                    /\ UNCHANGED <<ret, caught, mstatus, mutex>>
    /\ UNCHANGED <<inputs, threads, orphanvars, dialectvars, cascadevars, flagvars, propvars, criterion, memoized, tablevars, already_compiling, regvars, class_, inherits,
                   polymorphic_identity, pmap_of, pmaps, inheriting_mappers,
                   base_mapper, with_polymorphic, cfgvars, histvars>>

\* lines 1583-1600: the polymorphic_on of the nearest ancestor that has one,
\* if the mapper has the ancestor's selectable or a selectable with the
\* ancestor's column in it
RECURSIVE AncestorDiscriminator(_, _)
AncestorDiscriminator(m, ms) ==
    IF ms = <<>> THEN NoColumn
    ELSE IF polymorphic_on[Head(ms)] = NoColumn
    THEN AncestorDiscriminator(m, Tail(ms))
    ELSE IF persist_selectable[m] = persist_selectable[Head(ms)]
    THEN polymorphic_on[Head(ms)]
    ELSE IF \E i \in 1 .. Len(persist_selectable[m].tables) :
              persist_selectable[m].tables[i] = polymorphic_on[Head(ms)].table
    THEN polymorphic_on[Head(ms)]
    ELSE NoColumn

\* lines 1469 and 1583-1600: the polymorphic_on the mapper ends with
PolymorphicOnFor(m) ==
    IF polymorphic_on[m] # NoColumn THEN polymorphic_on[m]
    ELSE AncestorDiscriminator(m, ToRootSeq(m))

\* lines 1485-1488 and 1503-1557: a polymorphic_on column that no property
\* maps gets a ColumnProperty of its own, under the key of the column
NeedsDiscriminatorProperty(m) ==
    polymorphic_on[m] # NoColumn /\ ~MapsColumn(props[m], polymorphic_on[m])
DiscriminatorProperty(m, id) ==
    Property(polymorphic_on[m].name, id, "column", <<polymorphic_on[m]>>)

\* lines 1546-1551: "Cannot exclude or override the discriminator column"
DiscriminatorExcluded(m) ==
    /\ NeedsDiscriminatorProperty(m)
    /\ ShouldExclude(m, polymorphic_on[m].name)

\* lines 1456-1600: _configure_polymorphic_setter(); it may raise
configure_polymorphic_setter(t) ==
    /\ AtPc(t, "construct", "polymorphic_setter")
    /\ LET f == Top(t) IN
       IF f.arg_fail = "polymorphic_setter"
       THEN /\ ConstructRaises(t, f, PlainExc("ArgumentError", f.m), mutex)
            /\ UNCHANGED <<polymorphic_on, props>>
       ELSE IF DiscriminatorExcluded(f.m)
       THEN /\ ConstructRaises(t, f, PlainExc("InvalidRequestError", f.m),
                               mutex)
            /\ UNCHANGED <<polymorphic_on, props>>
       ELSE /\ polymorphic_on' = [polymorphic_on EXCEPT ![f.m] =
                                     PolymorphicOnFor(f.m)]
            /\ props' = IF NeedsDiscriminatorProperty(f.m)
                        THEN [props EXCEPT ![f.m] =
                                SetProp(@, DiscriminatorProperty(f.m, f.m))]
                        ELSE props
            /\ stack' = SetTop(t, [f EXCEPT !.pc = "pks"])
            /\ UNCHANGED <<ret, caught, mstatus, mutex>>
    /\ UNCHANGED <<inputs, threads, orphanvars, dialectvars, cascadevars, batch, passive_updates, passive_deletes,
                   propvars, criterion, memoized, tablevars, already_compiling,
                   regvars, class_, inherits, polymorphic_identity, pmap_of,
                   pmaps, inheriting_mappers, base_mapper, with_polymorphic,
                   cfgvars, histvars>>

FlagsBeforePks(m, failed) == [ready_for_configure EXCEPT ![m] = TRUE]

\* lines 663-666: _configure_pks(), then registry._flag_new_mapper(self)
\* and the end of the with-block
FlagsAfterPks(m, failed) ==
    IF failed THEN ready_for_configure
    ELSE [ready_for_configure EXCEPT ![m] = TRUE]

\* lines 1364-1390: the primary key made from the primary_key argument or
\* from the primary key columns of persist_selectable
DerivedPrimaryKey(m, pkarg) ==
    [by |-> m, from |-> IF pkarg THEN "argument" ELSE "table"]

PrimaryKeyAlwaysDerived(m, pkarg) == DerivedPrimaryKey(m, pkarg)

\* lines 1355-1390: the primary key of the parent is reused unless the
\* mapper is concrete or has a primary_key argument
PrimaryKeyFor(m, pkarg) ==
    IF inherits[m] # None /\ ~concrete[m] /\ ~pkarg
    THEN primary_key[inherits[m]]
    ELSE DerivedPrimaryKey(m, pkarg)

\* line 1356-1360: the condition under which the parent's key is reused
ReusesParentKey(m, pkarg) == inherits[m] # None /\ ~concrete[m] /\ ~pkarg

\* the tuple of no columns
EmptyPrimaryKey == [by |-> None, from |-> "empty"]

\* lines 1364-1379: the columns the key is reduced from: none when, without
\* a primary_key argument, the mapped columns hold no primary key column of
\* persist_selectable, or when reduce_columns() leaves nothing
NoKeyColumns(f) ==
    \/ ~f.arg_pkarg /\ f.arg_fail = "pks"
    \/ f.arg_fail = "reduced"

KeyCheckNever(f) == FALSE

\* lines 1336-1345 and 1381-1385: "could not assemble any primary key
\* columns"; the first check is made whenever there is no primary_key
\* argument, the second where the key is not the parent's
KeyCheckFails(f) ==
    \/ ~f.arg_pkarg /\ f.arg_fail = "pks"
    \/ ~ReusesParentKey(f.m, f.arg_pkarg) /\ f.arg_fail = "reduced"

\* lines 1301-1400: _configure_pks()
configure_pks(t) ==
    /\ AtPc(t, "construct", "pks")
    /\ LET f == Top(t)
           failed == KeyCheckFails(f)
       IN
       /\ primary_key' = IF failed THEN primary_key
                         ELSE [primary_key EXCEPT ![f.m] =
                                 IF NoKeyColumns(f)
                                    /\ ~ReusesParentKey(f.m, f.arg_pkarg)
                                 THEN EmptyPrimaryKey
                                 ELSE PrimaryKeyFor(f.m, f.arg_pkarg)]
       /\ UNCHANGED <<concrete, local_table, persist_selectable, single>>
       /\ memoized' = IF failed THEN memoized ELSE ExpireMemoizations(f.m)
       /\ criterion' = IF failed THEN criterion ELSE ExpireCriterion(f.m)
       /\ ready_for_configure' = FlagsAfterPks(f.m, failed)
       /\ new_mappers' = IF ready_for_configure'[f.m]
                         THEN FlagNewMapper(RegistryOf(f.arg_class))
                         ELSE new_mappers
       /\ IF failed
          THEN ConstructRaises(t, f, PlainExc("ArgumentError", f.m), mutex)
          ELSE /\ mutex' = Released(mutex)
               /\ mstatus' = [mstatus EXCEPT ![f.m] = "constructed"]
               /\ Return(t, f)
    /\ UNCHANGED <<inputs, threads, orphanvars, dialectvars, cascadevars, flagvars, propvars, already_compiling, dependencies, dependents,
                   managers, manager_mapper, chainvars, configured,
                   configure_failed, dispose_called, configure_started,
                   configure_finished, histvars>>

\* ---- what a mapper computes for queries ----------------------------------------
\* the return of a call that ran no frame of its own
Answer(t, k, m) ==
    ret' = [ret EXCEPT ![t] = [NoFrame EXCEPT !.kind = k, !.pc = "returned",
                                              !.m = m]]

\* lines 2075-2082: the value _single_table_criterion computes
SingleTableCriterion(m) ==
    IF single[m] /\ inherits[m] # None /\ polymorphic_on[m] # NoColumn
    THEN [memo |-> TRUE, filter |-> TRUE, col |-> polymorphic_on[m],
          in_ |-> {polymorphic_identity[x] : x \in SelfAndDescendants(m)}]
    ELSE [memo |-> TRUE, filter |-> FALSE, col |-> NoColumn, in_ |-> {}]

\* lines 2075-2082: a read of the memoized attribute _single_table_criterion;
\* the first read computes it, and memoizes self_and_descendants on the way
single_table_criterion(t) ==
    /\ t \in threads
    /\ Idle(t)
    /\ \E m \in Mappers :
         /\ mstatus[m] = "constructed"
         /\ criterion' = IF criterion[m].memo THEN criterion
                         ELSE [criterion EXCEPT ![m] = SingleTableCriterion(m)]
         /\ memoized' = IF ~criterion[m].memo /\ SingleTableCriterion(m).filter
                        THEN [memoized EXCEPT ![m] = SelfAndDescendants(m)]
                        ELSE memoized
         /\ Answer(t, "_single_table_criterion", m)
    /\ UNCHANGED <<inputs, threads, orphanvars, dialectvars, cascadevars, stack, mutex, already_compiling, regvars,
                   mstatus, chainvars, tablevars, flagvars, propvars, cfgvars,
                   histvars, caught>>

\* ---- registry disposal -------------------------------------------------------
DisposeArgs == {<<Registries, FALSE>>}
                 \cup {<<{r}, c>> : r \in Registries, c \in BOOLEAN}

\* clear_mappers(), registry.dispose()
dispose_registries(t) ==
    /\ t \in threads
    /\ Idle(t)
    /\ \E a \in DisposeArgs \cap inputs.disposals :
         /\ (\E c \in Classes : c \in UNION {managers[r] : r \in a[1]})
         /\ stack' = Push(t, [NoFrame EXCEPT !.kind = "dispose", !.pc = "next",
                                !.regs = a[1], !.cascade = a[2],
                                !.todo = a[1]])
    /\ ret' = [ret EXCEPT ![t] = NoFrame]
    /\ UNCHANGED <<inputs, threads, orphanvars, dialectvars, cascadevars, flagvars, propvars, criterion, memoized, tablevars, mutex, already_compiling, regvars, mstatus,
                   chainvars, cfgvars, histvars, caught>>

\* lines 1294-1299: Mapper._set_dispose_flags(), for the mappers of a set of
\* classes
MappersOf(cs) == {manager_mapper[c] : c \in cs} \ {None}

SetDisposeFlags(ms) ==
    /\ configured' = [m \in Mappers |-> IF m \in ms THEN TRUE
                                        ELSE configured[m]]
    /\ ready_for_configure' = [m \in Mappers |->
                                 IF m \in ms THEN TRUE
                                 ELSE ready_for_configure[m]]
    /\ dispose_called' = [m \in Mappers |-> IF m \in ms THEN TRUE
                                            ELSE dispose_called[m]]
    /\ configure_failed' = [m \in Mappers |-> IF m \in ms THEN NoExc
                                              ELSE configure_failed[m]]

\* lines 3451-3453: reg._dependents.clear(); for dep in reg._dependencies:
\* dep._dependents.discard(reg)
DiscardDependent(r) ==
    [x \in Registries |->
       IF x = r THEN {}
       ELSE IF x \in dependencies[r] THEN dependents[x] \ {r}
       ELSE dependents[x]]

DisposedFlagsKept(r) == new_mappers

\* line 3459: reg._new_mappers = False
DisposedFlags(r) == [new_mappers EXCEPT ![r] = FALSE]

\* lines 3434-3459: one registry of _recurse_with_dependents(registries)
DisposeStep(t) ==
    /\ AtPc(t, "dispose", "next")
    /\ LET f == Top(t) IN
       IF f.todo = {}
       THEN /\ Return(t, f)
            /\ UNCHANGED <<regvars, cfgvars>>
       ELSE \E r \in f.todo :
              LET d == f.done \cup {r}
                  g == [f EXCEPT !.done = d, !.reg = r,
                           !.todo = (f.todo \ {r}) \cup (dependents[r] \ d)]
              IN
              IF ~f.cascade /\ (dependents[r] \ f.regs) # {}
              THEN /\ Return(t, [g EXCEPT !.exc = PlainExc("InvalidRequestError", None)])
                   /\ UNCHANGED <<regvars, cfgvars>>
              ELSE /\ stack' = SetTop(t, g)
                   /\ SetDisposeFlags(MappersOf(managers[r]))
                   /\ manager_mapper' = [c \in Classes |->
                                           IF c \in managers[r] THEN None
                                           ELSE manager_mapper[c]]
                   /\ managers' = [managers EXCEPT ![r] = {}]
                   /\ dependents' = DiscardDependent(r)
                   /\ dependencies' = [dependencies EXCEPT ![r] = {}]
                   /\ new_mappers' = DisposedFlags(r)
                   /\ UNCHANGED <<ret, caught, configure_started,
                                  configure_finished>>
    /\ UNCHANGED <<inputs, threads, orphanvars, dialectvars, cascadevars, flagvars, propvars, criterion, memoized, tablevars, mutex, already_compiling, mstatus, chainvars,
                   histvars>>

\* ---- the polymorphic selectable ------------------------------------------------
\* lines 2702-2716: the order of self_and_descendants, breadth first
RECURSIVE BreadthFirst(_, _)
BreadthFirst(queue, out) ==
    IF queue = <<>> THEN out
    ELSE BreadthFirst(Tail(queue) \o inheriting_mappers[Head(queue)],
                      Append(out, Head(queue)))

DescendantsList(m) ==
    LET Kept(x) == x \in SelfAndDescendants(m)
    IN SelectSeq(BreadthFirst(<<m>>, <<>>), Kept)

\* lines 2264-2268: without a spec, the spec of self.with_polymorphic
SpecFor(m, spec) ==
    IF spec = {} THEN MappersOf({with_polymorphic[m][i] :
                                   i \in 1 .. Len(with_polymorphic[m])})
    ELSE spec

\* line 2028: m.isa(self)
Isa(x, m) == m \in ToRoot(x)

\* lines 2021-2037: _mappers_from_spec(spec, None)
MappersFromSpec(m, star, spec) ==
    LET Wanted(x) == \E q \in spec : x \in ToRoot(q)
    IN IF star THEN DescendantsList(m)
       ELSE IF spec # {} THEN SelectSeq(DescendantsList(m), Wanted)
       ELSE <<>>

\* lines 2064-2071: from_obj.join() or from_obj.outerjoin() of the local
\* table of a mapper, on its inherit_condition
JoinTo(x, inner) ==
    [table |-> local_table[x], on |-> persist_selectable[x].on, outer |-> ~inner]

RefusesNone(x) == FALSE

\* lines 2058-2062: a concrete mapper is refused
RefusesConcrete(x) == concrete[x]

\* lines 2048-2073: _selectable_from_mappers(mappers, innerjoin): the joins
\* added to self.persist_selectable, or the exception
RECURSIVE SelectableFromMappers(_, _, _, _)
SelectableFromMappers(m, ms, inner, joins) ==
    IF ms = <<>> THEN [error |-> "none", joins |-> joins]
    ELSE IF Head(ms) = m THEN SelectableFromMappers(m, Tail(ms), inner, joins)
    ELSE IF RefusesConcrete(Head(ms))
    THEN [error |-> "InvalidRequestError", joins |-> joins]
    ELSE IF ~single[Head(ms)]
    THEN SelectableFromMappers(m, Tail(ms), inner,
                               Append(joins, JoinTo(Head(ms), inner)))
    ELSE SelectableFromMappers(m, Tail(ms), inner, joins)

\* lines 2254-2273: _with_polymorphic_args(spec, selectable=None, innerjoin)
\* (the call is followed once from a state of the mappers: a second call in
\* a row would compute from the same mappers and memoized values)
with_polymorphic_args(t) ==
    /\ t \in threads
    /\ Idle(t)
    /\ ret[t].kind # "_with_polymorphic_args"
    /\ \E m \in Mappers, star \in BOOLEAN, inner \in BOOLEAN,
          given \in SUBSET {x \in Mappers : mstatus[x] = "constructed"} :
         /\ mstatus[m] = "constructed"
         /\ star => given = {}
         /\ LET spec == SpecFor(m, given)
                f == [NoFrame EXCEPT !.kind = "_with_polymorphic_args",
                                     !.pc = "returned", !.m = m,
                                     !.arg_star = star, !.arg_spec = given,
                                     !.arg_innerjoin = inner]
                r == SelectableFromMappers(m, MappersFromSpec(m, star, spec),
                                           inner, <<>>)
            IN IF ~star /\ \E q \in spec : ~Isa(q, m)
               THEN /\ ret' = [ret EXCEPT ![t] =
                                 [f EXCEPT !.exc = PlainExc("InvalidRequestError", m),
                                           !.excSite = "isa"]]
                    /\ UNCHANGED memoized
               ELSE /\ ret' = [ret EXCEPT ![t] =
                                 [f EXCEPT !.joins = r.joins,
                                           !.exc = IF r.error = "none" THEN NoExc
                                                   ELSE PlainExc(r.error, m),
                                           !.excSite = IF r.error = "none"
                                                       THEN "none"
                                                       ELSE "concrete"]]
                    /\ memoized' = IF star \/ spec # {}
                                   THEN [memoized EXCEPT ![m] =
                                           SelfAndDescendants(m)]
                                   ELSE memoized
    /\ UNCHANGED <<inputs, threads, orphanvars, dialectvars, cascadevars, stack, mutex, already_compiling, regvars,
                   mstatus, chainvars, tablevars, flagvars, propvars, criterion,
                   cfgvars, histvars, caught>>

\* ---- identity keys -----------------------------------------------------------------
\* the values of a row and the identity tokens of the calls
Values == {1, 2}
Tokens == {None, 1}

\* lines 1046-1049 and 1116: _identity_class
RECURSIVE IdentityClass(_)
IdentityClass(m) ==
    IF inherits[m] # None /\ polymorphic_identity[m] # "none" /\ ~concrete[m]
    THEN IdentityClass(inherits[m])
    ELSE class_[m]

\* lines 1364-1390: the columns of Mapper.primary_key: the columns of the
\* primary_key argument in the order given, or the key column the primary
\* key columns of the selectable reduce to
PrimaryKeyColumns(m) ==
    LET by == primary_key[m].by IN
    IF primary_key[m].from = "argument"
    THEN <<Column(persist_selectable[by].tables[Len(persist_selectable[by].tables)], "x"),
           Column(persist_selectable[by].tables[Len(persist_selectable[by].tables)], "id")>>
    ELSE IF primary_key[m].from = "table"
    THEN <<Column(persist_selectable[by].tables[1], "id")>>
    ELSE <<>>

\* adapter.columns[c]: the column of an alias of the table
Adapted(c) == Column(c.table + NMappers, c.name)

RowOrder(m, adapter) ==
    LET cs == SelectableColumns(persist_selectable[m].tables)
        InKey(c) == \E i \in 1 .. Len(PrimaryKeyColumns(m)) : PrimaryKeyColumns(m)[i] = c
        ks == SelectSeq(cs, InKey)
    IN IF adapter THEN [i \in 1 .. Len(ks) |-> Adapted(ks[i])] ELSE ks

\* lines 2764-2766: pk_cols, adapted if there is an adapter
PkCols(m, adapter) ==
    IF adapter
    THEN [i \in 1 .. Len(PrimaryKeyColumns(m)) |-> Adapted(PrimaryKeyColumns(m)[i])]
    ELSE PrimaryKeyColumns(m)

\* the columns of a row loaded for the mapper
RowColumns(m, adapter) ==
    LET cs == SelectableColumns(persist_selectable[m].tables) IN
    {IF adapter THEN Adapted(cs[i]) ELSE cs[i] : i \in 1 .. Len(cs)}

\* tuple(...) of a generator: the values in the order of the iteration
RECURSIVE TupleOf(_, _)
TupleOf(row, cols) ==
    IF cols = <<>> THEN <<>>
    ELSE <<row[Head(cols)]>> \o TupleOf(row, Tail(cols))

\* lines 2752-2771: identity_key_from_row(row, identity_token, adapter)
IdentityKeyFromRow(m, row, token, adapter) ==
    <<IdentityClass(m), TupleOf(row, PkCols(m, adapter)), token>>

\* lines 2773-2781: identity_key_from_primary_key(primary_key, identity_token)
IdentityKeyFromPrimaryKey(m, pk, token) == <<IdentityClass(m), pk, token>>

\* a call of identity_key_from_row with a row of the mapper's selectable
\* (a key is computed from a row once from a state of the mappers)
identity_key_from_row(t) ==
    /\ t \in threads
    /\ Idle(t)
    /\ ret[t].kind \notin {"identity_key_from_row", "identity_key_from_primary_key"}
    /\ \E m \in Mappers, token \in Tokens, adapter \in BOOLEAN :
         /\ mstatus[m] = "constructed"
         /\ \E row \in [RowColumns(m, adapter) -> Values] :
              ret' = [ret EXCEPT ![t] =
                        [NoFrame EXCEPT !.kind = "identity_key_from_row",
                                        !.pc = "returned", !.m = m,
                                        !.arg_row = row, !.arg_token = token,
                                        !.arg_adapter = adapter,
                                        !.key = IdentityKeyFromRow(m, row, token,
                                                                   adapter)]]
    /\ UNCHANGED <<inputs, threads, orphanvars, dialectvars, cascadevars, stack, mutex, already_compiling, regvars,
                   mstatus, chainvars, tablevars, flagvars, propvars, criterion,
                   memoized, cfgvars, histvars, caught>>

\* a call of identity_key_from_primary_key; the frame keeps the key the
\* call before it returned
\* (and from primary key values once, alone or after the key from a row)
identity_key_from_primary_key(t) ==
    /\ t \in threads
    /\ Idle(t)
    /\ ret[t].kind # "identity_key_from_primary_key"
    /\ \E m \in Mappers, token \in Tokens :
         /\ mstatus[m] = "constructed"
         /\ \E pk \in [1 .. Len(PrimaryKeyColumns(m)) -> Values] :
              ret' = [ret EXCEPT ![t] =
                        [NoFrame EXCEPT !.kind = "identity_key_from_primary_key",
                                        !.pc = "returned", !.m = m,
                                        !.arg_primary_key = pk,
                                        !.arg_token = token,
                                        !.after = ret[t].key,
                                        !.key = IdentityKeyFromPrimaryKey(m, pk,
                                                                          token)]]
    /\ UNCHANGED <<inputs, threads, orphanvars, dialectvars, cascadevars, stack, mutex, already_compiling, regvars,
                   mstatus, chainvars, tablevars, flagvars, propvars, criterion,
                   memoized, cfgvars, histvars, caught>>

\* ---- properties added after construction ----------------------------------------
\* the MapperProperty objects not yet given to a mapper
Unused == {a \in AddedIds : prop_parent[a] = None}
FreshId == CHOOSE a \in Unused : \A b \in Unused : a <= b

\* the keys add_property() is called with
AddKeys == {"r", "z"}

\* lines 1791-1796 of _configure_property(key, prop, init), with the calls of
\* prop.init() it makes: _configure_started and _configure_finished of the
\* properties, the history of the calls, and the memoizations it expires
ConfigureAdded(m, e, calls) ==
    LET ids == {c[2] : c \in calls} IN
    /\ props' = ConfigureProperty(props, m, e)
    /\ prop_parent' = [prop_parent EXCEPT ![e.by] = m]
    /\ initCount' = [id \in PropIds |->
                       IF id \in ids THEN Saturate(initCount[id])
                       ELSE initCount[id]]
    /\ initFor' = [id \in PropIds |->
                     initFor[id] \cup {c[1] : c \in {x \in calls : x[2] = id}}]
    /\ configure_started' = [id \in PropIds |->
                               configure_started[id] \/ id \in ids]
    /\ configure_finished' = [id \in PropIds |->
                                configure_finished[id] \/ id \in ids]
    /\ memoized' = [x \in Mappers |->
                      IF x \in ExpiredBy(Touched(m, e)) THEN {}
                      ELSE memoized[x]]
    /\ criterion' = [x \in Mappers |->
                       IF x \in ExpiredBy(Touched(m, e)) THEN NoCriterion
                       ELSE criterion[x]]
    /\ IF calls # {}
       THEN \E d \in (Registries \cup {None}) \cap inputs.depends :
              SetDependsOn(RegistryOf(class_[m]), d)
       ELSE UNCHANGED <<dependencies, dependents>>

\* line 1926: init=self.configured
InitOnAdd(m) == configured[m]

\* lines 1916-1926: Mapper.add_property(key, prop), with a property that no
\* mapper has been given before
add_property(t) ==
    /\ t \in threads
    /\ Idle(t)
    /\ Unused # {}
    /\ \E m \in Mappers, k \in AddKeys \cap inputs.add_keys :
         LET e == Property(k, FreshId, "other", <<>>) IN
         /\ mstatus[m] = "constructed"
         /\ ~dispose_called[m]
         /\ init_properties' = [init_properties EXCEPT ![m] = @ \cup {k}]
         /\ ConfigureAdded(m, e, IF InitOnAdd(m) THEN InitedBy(m, e) ELSE {})
         /\ ret' = [ret EXCEPT ![t] =
                      [NoFrame EXCEPT !.kind = "add_property",
                                      !.pc = "returned", !.m = m,
                                      !.arg_key = k, !.added = FreshId]]
    /\ UNCHANGED <<inputs, threads, orphanvars, dialectvars, cascadevars, stack, mutex, already_compiling,
                   new_mappers, managers, manager_mapper, mstatus, class_,
                   inherits, polymorphic_identity, pmap_of, pmaps,
                   inheriting_mappers, base_mapper, with_polymorphic,
                   tablevars, flagvars, exclude_properties, configured,
                   ready_for_configure, configure_failed, dispose_called,
                   postCount, mcCount, caught>>

\* the column a declarative concrete base passes to _set_polymorphic_on():
\* the "type" column of the polymorphic union
UnionColumn == Column(None, "type")

\* lines 1186-1188 and 1470-1557: Mapper._set_polymorphic_on(polymorphic_on)
\* calls _configure_polymorphic_setter(True): a column that no property maps
\* gets a ColumnProperty, configured with init=True
set_polymorphic_on(t) ==
    /\ t \in threads
    /\ Idle(t)
    /\ \E m \in Mappers :
         LET e == Property(UnionColumn.name, FreshId, "column", <<UnionColumn>>)
         IN
         /\ mstatus[m] = "constructed"
         /\ ~dispose_called[m]
         /\ polymorphic_on' = [polymorphic_on EXCEPT ![m] = UnionColumn]
         /\ IF MapsColumn(props[m], UnionColumn)
            THEN UNCHANGED <<props, prop_parent, initCount, initFor,
                             configure_started, configure_finished, memoized,
                             criterion, dependencies, dependents>>
            ELSE /\ Unused # {}
                 /\ ConfigureAdded(m, e, InitedBy(m, e))
         /\ ret' = [ret EXCEPT ![t] =
                      [NoFrame EXCEPT !.kind = "_set_polymorphic_on",
                                      !.pc = "returned", !.m = m]]
    /\ UNCHANGED <<inputs, threads, orphanvars, dialectvars, cascadevars, stack, mutex, already_compiling,
                   new_mappers, managers, manager_mapper, mstatus, class_,
                   inherits, polymorphic_identity, pmap_of, pmaps,
                   inheriting_mappers, base_mapper, with_polymorphic,
                   tablevars, batch, passive_updates, passive_deletes,
                   init_properties, exclude_properties, configured,
                   ready_for_configure, configure_failed, dispose_called,
                   postCount, mcCount, caught>>

\* ---- reading the properties -----------------------------------------------------
ChecksNever(a, c) == FALSE

\* lines 1991-1992 and 2011: the accessors that call _check_configure()
Checks(a, c) ==
    \/ a = "iterate_properties"
    \/ a = "get_property" /\ c

AccessorFrame(a, m, k, c) ==
    [NoFrame EXCEPT !.kind = "accessor", !.accessor = a, !.m = m,
                    !.arg_key = k, !.arg_configure = c,
                    !.pc = IF Checks(a, c) THEN "check" ELSE "read"]

Accessing(t, a, k, c) ==
    /\ t \in threads
    /\ Idle(t)
    /\ \E m \in Mappers :
         /\ mstatus[m] = "constructed"
         /\ ~dispose_called[m]
         /\ stack' = Push(t, AccessorFrame(a, m, k, c))
    /\ UNCHANGED <<inputs, threads, orphanvars, dialectvars, cascadevars, ret, mutex, already_compiling, regvars,
                   mstatus, chainvars, tablevars, flagvars, propvars,
                   criterion, memoized, cfgvars, histvars, caught>>

\* lines 1988-1999: Mapper.get_property(key, _configure_mappers=True)
get_property(t) ==
    \E k \in {"id", "z"}, c \in BOOLEAN : Accessing(t, "get_property", k, c)

\* lines 2001-2005: Mapper.get_property_by_column(column)
get_property_by_column(t) ==
    \E k \in {"id", "type"} : Accessing(t, "get_property_by_column", k, FALSE)

\* lines 2007-2012: Mapper.iterate_properties
iterate_properties(t) == Accessing(t, "iterate_properties", "none", FALSE)

\* lines 1881-1883: _check_configure()
check_configure(t) ==
    /\ AtPc(t, "accessor", "check")
    /\ LET f == Top(t)
           r == RegistryOf(class_[f.m])
       IN IF new_mappers[r]
          THEN /\ stack' = [stack EXCEPT ![t] =
                              Append([@ EXCEPT ![Len(@)] =
                                        [f EXCEPT !.pc = "called",
                                                  !.pendingAtCheck = TRUE]],
                                     CallFrame(t, {r}, TRUE, FALSE))]
               /\ ret' = [ret EXCEPT ![t] = NoFrame]
          ELSE /\ stack' = SetTop(t, [f EXCEPT !.pc = "read"])
               /\ UNCHANGED ret
    /\ UNCHANGED <<inputs, threads, orphanvars, dialectvars, cascadevars, mutex, already_compiling, regvars,
                   mstatus, chainvars, tablevars, flagvars, propvars,
                   criterion, memoized, cfgvars, histvars, caught>>

\* the column get_property_by_column() is asked for
ColumnNamed(m, k) ==
    IF k = UnionColumn.name THEN UnionColumn
    ELSE Column(persist_selectable[m].tables[1], k)

\* lines 1994-1999 and 2005: the KeyError of _props, the
\* UnmappedColumnError of _columntoproperty
ReadError(f) ==
    IF f.accessor = "get_property" /\ ~HasKey(props[f.m], f.arg_key)
    THEN "InvalidRequestError"
    ELSE IF /\ f.accessor = "get_property_by_column"
            /\ \/ persist_selectable[f.m].tables = <<>>
               \/ ~MapsColumn(props[f.m], ColumnNamed(f.m, f.arg_key))
    THEN "UnmappedColumnError"
    ELSE "none"

\* lines 1995, 2005 and 2012: the keys of the properties read
ReadKeys(f) ==
    IF f.accessor = "get_property" THEN <<f.arg_key>>
    ELSE IF f.accessor = "get_property_by_column"
    THEN <<PropertyOfColumn(props[f.m], ColumnNamed(f.m, f.arg_key)).key>>
    ELSE Keys(props[f.m])

\* lines 1994-1999, 2005 and 2012: the read of _props or _columntoproperty;
\* an exception of the configure pass leaves the accessor before the read
read_properties(t) ==
    /\ t \in threads
    /\ ~Idle(t)
    /\ Top(t).kind = "accessor"
    /\ Top(t).pc \in {"called", "read"}
    /\ LET f == Top(t) IN
       IF f.pc = "called" /\ ret[t].exc # NoExc
       THEN Return(t, [f EXCEPT !.exc = ret[t].exc])
       ELSE IF ReadError(f) # "none"
       THEN Return(t, [f EXCEPT !.exc = PlainExc(ReadError(f), f.m)])
       ELSE Return(t, [f EXCEPT !.key = ReadKeys(f)])
    /\ UNCHANGED <<inputs, threads, orphanvars, dialectvars, cascadevars, mutex, already_compiling, regvars,
                   mstatus, chainvars, tablevars, flagvars, propvars,
                   criterion, memoized, cfgvars, histvars>>

\* ---- orphan detection -----------------------------------------------------------
MaxOrphans == 2
OrphanKeys == {"p"}

RECURSIVE PairsAlong(_)
PairsAlong(ms) ==
    IF ms = <<>> THEN <<>> ELSE delete_orphans[Head(ms)] \o PairsAlong(Tail(ms))

\* relationship(cascade="... delete-orphan"), when it is set up, appends
\* (self.key, self.parent.class_) to the _delete_orphans of the mapper of
\* its target
add_delete_orphan(t) ==
    /\ t \in threads
    /\ Idle(t)
    /\ Len(PairsAlong([i \in 1 .. NMappers |-> i])) < MaxOrphans
    /\ \E m \in Mappers, k \in OrphanKeys, p \in Mappers :
         /\ mstatus[m] = "constructed"
         /\ mstatus[p] = "constructed"
         /\ delete_orphans' = [delete_orphans EXCEPT ![m] =
                                 Append(@, <<k, class_[p]>>)]
    /\ ret' = [ret EXCEPT ![t] = NoFrame]
    /\ UNCHANGED <<inputs, threads, stack, mappervars, legacy_is_orphan,
                   dialectvars, cascadevars>>

SelfOnly(m) == <<m>>

\* line 1967: for mapper in self.iterate_to_root()
OrphanMappers(m) == ToRootSeq(m)

\* lines 1968-1978: the loop over the (key, cls) pairs with its two returns;
\* has is the set of pairs for which has_parent(state, key) is true
RECURSIVE OrphanLoop(_, _, _)
OrphanLoop(pairs, legacy, has) ==
    IF pairs = <<>> THEN "end"
    ELSE IF legacy /\ Head(pairs) \in has THEN "False"
    ELSE IF ~legacy /\ Head(pairs) \notin has THEN "True"
    ELSE OrphanLoop(Tail(pairs), legacy, has)

\* lines 1965-1983: Mapper._is_orphan(state)
IsOrphan(m, has) ==
    LET pairs == PairsAlong(OrphanMappers(m))
        orphan_possible == pairs # <<>>
        left == OrphanLoop(pairs, legacy_is_orphan[m], has)
    IN IF left = "end"
       THEN IF legacy_is_orphan[m] THEN orphan_possible ELSE FALSE
       ELSE left = "True"

\* the pairs has_parent() can be asked about
KnownPairs == {<<k, c>> : k \in OrphanKeys, c \in 1 .. ChainMappers}

\* a call of mapper._is_orphan(state), for a state with parents through the
\* relationships of arg_parents
\* (the call is followed once from a state of the mappers: it changes nothing)
is_orphan(t) ==
    /\ t \in threads
    /\ Idle(t)
    /\ ret[t].kind # "is_orphan"
    /\ \E m \in Mappers, has \in SUBSET KnownPairs :
         /\ mstatus[m] = "constructed"
         /\ ret' = [ret EXCEPT ![t] =
                      [NoFrame EXCEPT !.kind = "is_orphan", !.pc = "returned",
                                      !.m = m, !.arg_parents = has,
                                      !.orphan = IsOrphan(m, has)]]
    /\ UNCHANGED <<inputs, threads, stack, mappervars, orphanvars,
                   dialectvars, cascadevars>>

\* ---- the pysqlcipher dialect -----------------------------------------------------
\* Python's None where the other values are strings
Missing == "None"

\* line 105: pragmas = ("kdf_iter", "cipher", "cipher_page_size",
\* "cipher_use_hmac")
pragmas == <<"kdf_iter", "cipher", "cipher_page_size", "cipher_use_hmac">>
PragmaNames == {pragmas[i] : i \in 1 .. Len(pragmas)}

\* the URLs of the model: with or without a password, which may be empty,
\* and with any of the four pragmas in the query string
Passwords == {Missing, "", "secret"}
QueryValues == {Missing, "1"}
Urls == [password : Passwords, query : [PragmaNames -> QueryValues]]
NoUrl == [password |-> Missing, query |-> [n \in PragmaNames |-> Missing]]

\* on_connect_url() has not been called
NoHook == [passphrase |-> Missing, url_query |-> NoUrl.query,
           super_on_connect |-> FALSE, url |-> NoUrl]

\* what is done on a connection
Cursor == [op |-> "cursor", pragma |-> Missing, value |-> Missing]
Close == [op |-> "close", pragma |-> Missing, value |-> Missing]
SuperOnConnect == [op |-> "super_on_connect", pragma |-> Missing, value |-> Missing]

\* lines 135 and 139: cursor.execute('pragma %s="%s"'), the name and the
\* value the statement is formatted from
Execute(prag, value) == [op |-> "execute", pragma |-> prag, value |-> value]

\* an in-place change of the URL object: another password, or a pragma
\* set in or taken from the query string
change_url ==
    /\ \/ \E p \in Passwords \ {url.password} :
            url' = [url EXCEPT !.password = p]
       \/ \E n \in PragmaNames : \E v \in QueryValues \ {url.query[n]} :
            url' = [url EXCEPT !.query[n] = v]
    /\ UNCHANGED <<inputs, threads, stack, ret, mappervars, orphanvars,
                   on_connect, conn, cascadevars>>

\* line 130: passphrase = url.password or ""
Passphrase(u) == IF u.password \in {Missing, ""} THEN "" ELSE u.password

\* lines 124-145: on_connect_url(url) returns the closure on_connect, which
\* holds passphrase, url_query and super_on_connect; super().on_connect_url
\* returns a hook or None
on_connect_url ==
    /\ \E sup \in BOOLEAN :
         on_connect' = [passphrase |-> Passphrase(url), url_query |-> url.query,
                        super_on_connect |-> sup, url |-> url]
    /\ UNCHANGED <<inputs, threads, stack, ret, mappervars, orphanvars,
                   url, conn, cascadevars>>

QueryOfUrl(h) == url.query

\* line 137: url_query.get(prag, None), on the dictionary of line 131
QueryOfHook(h) == h.url_query

\* lines 136-139: for prag in self.pragmas: one execute for each value found
RECURSIVE PragmaLoop(_, _)
PragmaLoop(h, ps) ==
    IF ps = <<>> THEN <<>>
    ELSE LET value == QueryOfHook(h)[Head(ps)] IN
         (IF value # Missing THEN <<Execute(Head(ps), value)>> ELSE <<>>)
           \o PragmaLoop(h, Tail(ps))

\* lines 133-143: the closure on_connect(conn)
OnConnect(h) ==
    <<Cursor, Execute("key", h.passphrase)>>
      \o PragmaLoop(h, pragmas)
      \o <<Close>>
      \o (IF h.super_on_connect THEN <<SuperOnConnect>> ELSE <<>>)

\* the pool makes a connection and calls the hook on it
connect ==
    /\ on_connect # NoHook
    /\ conn' = OnConnect(on_connect)
    /\ UNCHANGED <<inputs, threads, stack, ret, mappervars, orphanvars,
                   url, on_connect, cascadevars>>

\* ---- cascade_iterator --------------------------------------------------------------
NObjects == 3
NProps == 2
Objects == 1 .. NObjects
PropKeys == [k \in 1 .. NProps |-> k]

\* the cascade rules a traversal is asked for, and prop.cascade of the
\* properties of the mapper: the first has both rules, the others one
Rules == {"delete", "merge"}
CascadeOf(k) == IF k = 1 THEN {"delete", "merge"} ELSE {"merge"}

NoGenerator ==
    [state |-> "none", type_ |-> "none", root |-> None, visitables |-> <<>>,
     visited_states |-> {}, instance |-> None]

\* line 3140: (deque(mapper._props.values()), prp, state, state.dict)
PropsOf(o) == [iterator |-> PropKeys, item_type |-> "prp", parent_state |-> o]

\* line 3160: (queue, mpp, None, None)
ItemsOf(queue) == [iterator |-> queue, item_type |-> "mpp", parent_state |-> None]

\* a call of mapper.cascade_iterator(type_, state): a generator function
\* returns a generator and runs nothing of its body
cascade_iterator ==
    /\ \E ty \in Rules, o \in Objects :
         generator' = [NoGenerator EXCEPT !.state = "created", !.type_ = ty,
                                          !.root = o]
    /\ yielded' = <<>>
    /\ UNCHANGED <<inputs, threads, stack, ret, mappervars, orphanvars,
                   dialectvars, related>>

\* prop.cascade_iterator(type_, state, dict_, visited_states, halt_on)
\* produces the objects the attribute refers to that are not in
\* visited_states, in their order, and adds each to visited_states
RECURSIVE Produced(_, _)
Produced(targets, visited) ==
    IF targets = <<>> THEN <<>>
    ELSE IF Head(targets) \in visited THEN Produced(Tail(targets), visited)
    ELSE <<Head(targets)>> \o Produced(Tail(targets), visited \cup {Head(targets)})

Range(q) == {q[i] : i \in 1 .. Len(q)}

PushFirst(vs, fr) == <<fr>> \o vs

\* lines 3160 and 3175: visitables.append(...)
PushVisitable(vs, fr) == Append(vs, fr)

\* iterator.popleft() on the deque of the last entry of visitables
PopLeft(vs) == [vs EXCEPT ![Len(vs)].iterator = Tail(@)]

\* lines 3143-3174: the loop runs until it yields or visitables is empty
RECURSIVE RunLoop(_, _, _)
RunLoop(vs, visited, ty) ==
    IF vs = <<>>
    THEN [state |-> "finished", visitables |-> vs, visited_states |-> visited,
          instance |-> None]
    ELSE LET top == vs[Len(vs)] IN
         IF top.iterator = <<>>
         THEN RunLoop(SubSeq(vs, 1, Len(vs) - 1), visited, ty)
         ELSE IF top.item_type = "prp"
         THEN LET prop == Head(top.iterator)
                  rest == PopLeft(vs)
              IN IF ty \notin CascadeOf(prop) THEN RunLoop(rest, visited, ty)
                 ELSE LET queue == Produced(related[top.parent_state][prop],
                                            visited)
                      IN IF queue # <<>>
                         THEN RunLoop(PushVisitable(rest, ItemsOf(queue)),
                                      visited \cup Range(queue), ty)
                         ELSE RunLoop(rest, visited, ty)
         ELSE [state |-> "suspended", visitables |-> PopLeft(vs),
               visited_states |-> visited, instance |-> Head(top.iterator)]

\* next(generator): the first call runs lines 3134-3141 and enters the loop;
\* a later call resumes after the yield, at line 3175
next ==
    /\ generator.state \in {"created", "suspended"}
    /\ LET g == generator
           vs == IF g.state = "created" THEN <<PropsOf(g.root)>>
                 ELSE PushVisitable(g.visitables, PropsOf(g.instance))
           r == RunLoop(vs, g.visited_states, g.type_)
       IN /\ generator' = [g EXCEPT !.state = r.state,
                                    !.visitables = r.visitables,
                                    !.visited_states = r.visited_states,
                                    !.instance = r.instance]
          /\ yielded' = IF r.state = "suspended"
                        THEN Append(yielded, r.instance) ELSE yielded
    /\ UNCHANGED <<inputs, threads, stack, ret, mappervars, orphanvars,
                   dialectvars, related>>

\* ---- the program ---------------------------------------------------------------
MapperState ==
    /\ stack = [t \in ThreadIds |-> <<>>]
    /\ ret = [t \in ThreadIds |-> NoFrame]
    /\ mutex = MutexFree
    /\ already_compiling = FALSE
    /\ new_mappers = [r \in Registries |-> FALSE]
    /\ dependencies = [r \in Registries |-> {}]
    /\ dependents = [r \in Registries |-> {}]
    /\ managers = [r \in Registries |-> {}]
    /\ manager_mapper = [c \in Classes |-> None]
    /\ mstatus = [m \in Mappers |-> "absent"]
    /\ class_ = [m \in Mappers |-> None]
    /\ inherits = [m \in Mappers |-> None]
    /\ polymorphic_identity = [m \in Mappers |-> "none"]
    /\ pmap_of = [m \in Mappers |-> m]
    /\ pmaps = [m \in Mappers |-> [i \in Identities |-> None]]
    /\ inheriting_mappers = [m \in Mappers |-> <<>>]
    /\ base_mapper = [m \in Mappers |-> None]
    /\ with_polymorphic = [m \in Mappers |-> <<>>]
    /\ props = [m \in Mappers |-> <<>>]
    /\ init_properties = [m \in Mappers |-> {}]
    /\ exclude_properties = [m \in Mappers |-> {}]
    /\ prop_parent = [a \in AddedIds |-> None]
    /\ batch = [m \in Mappers |-> TRUE]
    /\ passive_updates = [m \in Mappers |-> TRUE]
    /\ passive_deletes = [m \in Mappers |-> FALSE]
    /\ polymorphic_on = [m \in Mappers |-> NoColumn]
    /\ criterion = [m \in Mappers |-> NoCriterion]
    /\ concrete = [m \in Mappers |-> FALSE]
    /\ local_table = [m \in Mappers |-> None]
    /\ persist_selectable = [m \in Mappers |-> NoSelectable]
    /\ single = [m \in Mappers |-> FALSE]
    /\ primary_key = [m \in Mappers |-> NoPrimaryKey]
    /\ memoized = [m \in Mappers |-> {}]
    /\ configured = [m \in Mappers |-> FALSE]
    /\ ready_for_configure = [m \in Mappers |-> FALSE]
    /\ configure_failed = [m \in Mappers |-> NoExc]
    /\ dispose_called = [m \in Mappers |-> FALSE]
    /\ configure_started = [p \in PropIds |-> FALSE]
    /\ configure_finished = [p \in PropIds |-> FALSE]
    /\ initCount = [p \in PropIds |-> 0]
    /\ initFor = [p \in PropIds |-> {}]
    /\ postCount = [m \in Mappers |-> 0]
    /\ mcCount = [m \in Mappers |-> 0]
    /\ caught = {}
    /\ legacy_is_orphan = [m \in Mappers |-> FALSE]
    /\ delete_orphans = [m \in Mappers |-> <<>>]

\* no engine has been created
DialectState ==
    /\ url = NoUrl
    /\ on_connect = NoHook
    /\ conn = <<>>

\* no object refers to another and no traversal has been started
CascadeState ==
    /\ related = [o \in Objects |-> [k \in 1 .. NProps |-> <<>>]]
    /\ generator = NoGenerator
    /\ yielded = <<>>

InitState == MapperState /\ DialectState /\ CascadeState

\* the inputs of a program that maps PassMappers classes to tables of their
\* own, without polymorphic options, and whose hooks only return or call
\* _configure_registries()
QuietInputs ==
    [hooks |-> {"ok", "call"}, identities |-> {"none"}, loads |-> {"none"},
     fails |-> {"none"}, slots |-> PassMappers, own_class |-> FALSE,
     concretes |-> {FALSE}, tables |-> {"own"}, fks |-> {1},
     conds |-> {FALSE}, pkargs |-> {FALSE}, maps |-> FALSE,
     declare_first |-> FALSE, call_at |-> {"mc_call"},
     external |-> {<<Registries, TRUE>>}, depends |-> {None},
     disposals |-> {<<Registries, FALSE>>}, batches |-> {TRUE},
     updates |-> {TRUE}, deletes |-> {FALSE}, discriminators |-> {FALSE},
     properties |-> {{}}, excludes |-> {{}}, add_keys |-> {},
     legacies |-> {FALSE}]

\* the configuration pass under every behaviour of its hooks, over mappers
\* constructed without polymorphic options
Init ==
    /\ inputs = [QuietInputs EXCEPT
                   !.hooks = HookOutcomes, !.fails = FailArgs,
                   !.disposals = DisposeArgs]
    /\ threads = {1}
    /\ InitState

Next ==
    \E t \in ThreadIds :
      \/ configure_registries(t)
      \/ Acquire(t)
      \/ before_configured(t)
      \/ HookReturn(t)
      \/ NextRegistry(t)
      \/ NextMapper(t)
      \/ before_mapper_configured(t)
      \/ FailCheck(t)
      \/ post_configure_properties(t)
      \/ mapper_configured(t)
      \/ EndRegistry(t)
      \/ Finally(t)
      \/ after_configured(t)
      \/ Construct(t)
      \/ configure_inheritance(t)
      \/ configure_class_instrumentation(t)
      \/ configure_properties(t)
      \/ configure_polymorphic_setter(t)
      \/ configure_pks(t)
      \/ dispose_registries(t)
      \/ DisposeStep(t)

Spec == Init /\ [][Next]_vars

\* ---- construction and the pass alone -------------------------------------------
\* construction and the configure pass, without hooks that call
\* _configure_registries() and without disposal
NextPass ==
    \E t \in ThreadIds :
      \/ Construct(t)
      \/ configure_inheritance(t)
      \/ configure_class_instrumentation(t)
      \/ configure_properties(t)
      \/ configure_polymorphic_setter(t)
      \/ configure_pks(t)
      \/ configure_registries(t)
      \/ Acquire(t)
      \/ before_configured(t)
      \/ NextRegistry(t)
      \/ NextMapper(t)
      \/ before_mapper_configured(t)
      \/ FailCheck(t)
      \/ post_configure_properties(t)
      \/ mapper_configured(t)
      \/ EndRegistry(t)
      \/ Finally(t)
      \/ after_configured(t)

\* mapper construction alone
NextConstruct ==
    \E t \in ThreadIds :
      \/ Construct(t)
      \/ configure_inheritance(t)
      \/ configure_class_instrumentation(t)
      \/ configure_properties(t)
      \/ configure_polymorphic_setter(t)
      \/ configure_pks(t)

\* inheritance chains: ChainMappers classes, each mapped once with a
\* polymorphic identity, concrete or not, with declarative concrete bases;
\* the hooks of the pass only return
InitChain ==
    /\ inputs = [QuietInputs EXCEPT !.identities = {"a"},
                                    !.slots = ChainMappers, !.own_class = TRUE,
                                    !.concretes = BOOLEAN,
                                    !.declare_first = TRUE, !.hooks = {"ok"}]
    /\ threads = {1}
    /\ InitState

SpecChain == InitChain /\ [][NextPass]_vars

\* two threads that construct mappers with polymorphic identities and run
\* configuration passes, over PassMappers classes; the hooks only return
InitThreads ==
    /\ inputs = [QuietInputs EXCEPT !.identities = {"a"}, !.own_class = TRUE,
                                    !.concretes = BOOLEAN,
                                    !.declare_first = TRUE, !.hooks = {"ok"}]
    /\ threads = ThreadIds
    /\ InitState

SpecThreads == InitThreads /\ [][NextPass]_vars

\* tables and primary keys: PassMappers classes mapped with or without a local
\* table, a join condition and a primary_key argument, over tables with no,
\* one or two foreign keys to the parent's table
InitTables ==
    /\ inputs = [QuietInputs EXCEPT !.own_class = TRUE,
                                    !.concretes = BOOLEAN,
                                    !.tables = {"none", "own", "parent"},
                                    !.fks = {0, 1, 2}, !.conds = BOOLEAN,
                                    !.pkargs = BOOLEAN,
                                    !.fails = {"none", "pks", "reduced"}]
    /\ threads = {1}
    /\ InitState

SpecTables == InitTables /\ [][NextConstruct]_vars

\* primary keys along chains of ChainMappers mappers, single-table or joined on
\* one foreign key, with or without a primary_key argument
InitKeys ==
    /\ inputs = [QuietInputs EXCEPT !.slots = ChainMappers, !.own_class = TRUE,
                                    !.concretes = BOOLEAN,
                                    !.tables = {"none", "own"},
                                    !.pkargs = BOOLEAN]
    /\ threads = {1}
    /\ InitState

SpecKeys == InitKeys /\ [][NextConstruct]_vars

\* ---- the frames of configure calls ---------------------------------------------
StackFrames(t) == {stack[t][i] : i \in 1 .. Len(stack[t])}
ConfigureFrames(t) ==
    {f \in StackFrames(t) \cup {ret[t]} : f.kind = "configure"}
Reentrant(f) == f.kind = "configure" /\ f.nested /\ f.entryFlag
InHookCall(t) ==
    /\ ~Idle(t)
    /\ Top(t).kind = "configure"
    /\ Top(t).pc \in {"before_call", "bmc_call", "mc_call"}
RegistryOfMapper(m) == RegistryOf(class_[m])

\* C1: a call of _configure_registries made from a hook of a running pass
\* (the flag _already_compiling is set) does nothing: it never gets past the
\* guard, it can always take the mutex (no deadlock), it fires no
\* before_configured or after_configured, initializes no descriptor, raises
\* nothing, and when it has returned the outer pass still owns the mutex and
\* the flag is still set.
ReentrantCallIsNoOp ==
    \A t \in threads :
      /\ \A f \in StackFrames(t) :
           Reentrant(f) => /\ f.pc = "lock"
                           /\ mutex.owner = t
                           /\ already_compiling
      /\ Reentrant(ret[t]) =>
           /\ ret[t].nBefore = 0
           /\ ret[t].nAfter = 0
           /\ ret[t].posted = {}
           /\ ret[t].inited = {}
           /\ ret[t].mcd = {}
           /\ ret[t].exc = NoExc
           /\ InHookCall(t) => /\ already_compiling
                               /\ mutex = [owner |-> t, depth |-> 1]

ReentrantCallReturned ==
    \E t \in threads :
      /\ Reentrant(ret[t])
      /\ \E r \in ret[t].regs : new_mappers[r]
      /\ InHookCall(t)
      /\ Top(t).pc = "mc_call"

\* C2 as amended: a configure call that follows at once, with nothing
\* constructed or disposed in between, a configure call over at least the
\* same registries that returned normally and in which no hook returned
\* EXT_SKIP, calls no init() and no _post_configure_properties(), and fires
\* no mapper_configured, before_configured or after_configured.
SecondPassDoesNothing ==
    \A t \in threads : \A f \in ConfigureFrames(t) :
      f.folClean => /\ f.nBefore = 0
                    /\ f.nAfter = 0
                    /\ f.posted = {}
                    /\ f.inited = {}
                    /\ f.mcd = {}

SecondPassAfterWork ==
    \E t \in threads :
      /\ ret[t].kind = "configure"
      /\ ret[t].folClean
      /\ \E m \in Mappers : /\ configured[m]
                            /\ ~dispose_called[m]
                            /\ RegistryOfMapper(m) \in ret[t].regs

\* C2 as stated: every configure call that follows at once a configure call
\* over the same registries does no property initialization and fires no
\* notification.
AnySecondPassDoesNothing ==
    \A t \in threads : \A f \in ConfigureFrames(t) :
      f.folAny => /\ f.nBefore = 0
                  /\ f.nAfter = 0
                  /\ f.posted = {}
                  /\ f.inited = {}
                  /\ f.mcd = {}

\* C3 as amended: in every external configure call that finds a flagged
\* registry at the double check, before_configured fires exactly once and
\* before any descriptor is processed; after_configured fires exactly once,
\* after the last descriptor, when the pass completes without raising, and
\* is not fired when the pass raises; a call that finds nothing fires
\* neither.
NotificationsBracketPass ==
    \A t \in threads : \A f \in ConfigureFrames(t) :
      ~f.nested =>
        /\ f.nBefore <= 1
        /\ f.nAfter <= 1
        /\ (f.found /\ f.pc # "before") => f.nBefore = 1
        /\ f.seen # {} => f.nBefore = 1
        /\ f.pc # "returned" => f.nAfter = 0
        /\ (f.pc = "returned" /\ f.found /\ f.exc = NoExc) => f.nAfter = 1
        /\ f.exc # NoExc => f.nAfter = 0
        /\ ~f.found => f.nBefore = 0 /\ f.nAfter = 0

PassOverManyCompleted ==
    \E t \in threads :
      /\ ret[t].kind = "configure"
      /\ ~ret[t].nested
      /\ ret[t].exc = NoExc
      /\ Cardinality(ret[t].cfgd) >= 2
      /\ Cardinality(ret[t].done) >= 2
      /\ ret[t].nAfter = 1

\* C3 as stated: every external configure call that finds a pending
\* descriptor has fired before_configured once and after_configured once
\* when it has ended.
EveryPassFiresBoth ==
    \A t \in threads :
      (/\ ret[t].kind = "configure"
       /\ ~ret[t].nested
       /\ ret[t].found
       /\ ret[t].pendingAtCheck) => /\ ret[t].nBefore = 1
                                   /\ ret[t].nAfter = 1

\* C4: a pass that comes to a pending descriptor carrying a recorded failure,
\* its before hooks not having skipped it, raises InvalidRequestError whose
\* _configure_failed is the recorded exception; it neither calls
\* _post_configure_properties on that descriptor nor fires its
\* mapper_configured (no frame is ever finishing a descriptor that has a
\* recorded failure).
FailedDescriptorStopsPass ==
    \A t \in threads : \A f \in ConfigureFrames(t) :
      /\ f.pc \in {"post", "mc", "mc_call"} => configure_failed[f.m] = NoExc
      /\ f.excSite = "failcheck" =>
           /\ f.exc.name = "InvalidRequestError"
           /\ f.exc.cf # 0
           /\ f.exc.cf = configure_failed[f.excOn].id
           /\ f.hooksRun[f.excOn] = NHooks
           /\ f.skipAt[f.excOn] = 0
           /\ f.excOn \notin f.posted
           /\ f.excOn \notin f.mcd

FailedDescriptorReached ==
    \E t \in threads :
      /\ ret[t].kind = "configure"
      /\ ret[t].excSite = "failcheck"
      /\ ~configured[ret[t].excOn]
      /\ \E m \in Mappers : /\ m # ret[t].excOn
                            /\ configure_failed[m] # NoExc
                            /\ configure_failed[m] # configure_failed[ret[t].excOn]

FinishingRecorded(f) ==
    /\ f.kind = "configure"
    /\ f.excSite \in {"init", "mapper_configured"}
    /\ f.excOn # None

FailurePermanent ==
    \A m \in Mappers :
      configure_failed[m] # NoExc =>
        \/ configure_failed'[m] = configure_failed[m]
        \/ dispose_called'[m]

\* C5 as amended: an exception raised while a pending descriptor is finished
\* (by init() in _post_configure_properties or by a mapper_configured hook)
\* that does not already carry a _configure_failed attribute is recorded as
\* the descriptor's _configure_failed and leaves the configure call; one that
\* already carries the attribute leaves the call without being recorded.  A
\* recorded failure is never changed or removed except by registry disposal.
FinishingFailureIsRecorded ==
    /\ [](\A t \in threads : \A f \in ConfigureFrames(t) :
            FinishingRecorded(f) =>
              /\ f.pc \in {"finally", "returned"}
              /\ f.exc # NoExc
              /\ f.exc.cf = 0 => configure_failed[f.excOn] = f.exc
              /\ f.exc.cf # 0 => configure_failed[f.excOn] = NoExc)
    /\ [][FailurePermanent]_vars

FinishingFailureSeen ==
    \E t \in threads :
      /\ FinishingRecorded(ret[t])
      /\ ret[t].excSite = "mapper_configured"
      /\ configure_failed[ret[t].excOn] = ret[t].exc

\* C5 as stated: every exception raised while a pending descriptor is
\* finished is recorded as that descriptor's _configure_failed.
EveryFinishingFailureIsRecorded ==
    \A t \in threads : \A f \in ConfigureFrames(t) :
      FinishingRecorded(f) => configure_failed[f.excOn] = f.exc

\* the frames of configure calls of thread t, the returned one included
PassFrames(t) ==
    ConfigureFrames(t) \cup
      (IF ret[t].kind = "configure" THEN {ret[t]} ELSE {})

RaisedInConstruction(m) == mstatus[m] = "raised" /\ ~dispose_called[m]

\* C6: a descriptor whose construction raised is marked Failed, and a later
\* configuration pass over the registry of its class raises
\* InvalidRequestError chaining the exception of the construction.
ConstructionFailureFailsLaterPass ==
    \A m \in Mappers : \A t \in threads :
      /\ RaisedInConstruction(m)
      /\ ret[t].kind = "configure"
      /\ ~ret[t].nested
      /\ ret[t].nBefore = 1
      /\ RegistryOfMapper(m) \in ret[t].done
      => /\ configure_failed[m] # NoExc
         /\ ret[t].exc.name = "InvalidRequestError"
         /\ ret[t].exc.cf = m

\* the state a failed construction shares with other descriptors
LeftInPolymorphicMap(m) ==
    \E b \in Mappers, i \in Identities : pmaps[b][i] = m

LeftInInheritingMappers(m) ==
    \E p \in Mappers : \E k \in 1 .. Len(inheriting_mappers[p]) :
      inheriting_mappers[p][k] = m

LeftInWithPolymorphic(m) ==
    /\ inherits[m] # None
    /\ \E k \in 1 .. Len(with_polymorphic[inherits[m]]) :
         with_polymorphic[inherits[m]][k] = class_[m]

LeftAsPrimaryMapper(m) == manager_mapper[class_[m]] = m

\* C7: when the construction of a descriptor raises, the polymorphic map of
\* its chain has no entry for it, its parent's _inheriting_mappers does not
\* hold it, its parent's with_polymorphic does not name its class, and its
\* class has no primary mapper installed by the failed call.
ConstructionFailsAtomically ==
    \A m \in Mappers :
      RaisedInConstruction(m) =>
        /\ ~LeftInPolymorphicMap(m)
        /\ ~LeftInInheritingMappers(m)
        /\ ~LeftInWithPolymorphic(m)
        /\ ~LeftAsPrimaryMapper(m)

\* C8: when a pass leaves with an exception, every descriptor it configured
\* before the failure is still configured with its properties initialized,
\* and every registry it finished before the failure still has its
\* _new_mappers flag cleared.
FailedPassKeepsItsWork ==
    \A t \in threads : \A f \in PassFrames(t) :
      f.exc # NoExc =>
        /\ \A m \in f.cfgd : /\ configured[m]
                             /\ m \in f.inited => configure_finished[m]
        /\ \A r \in f.cleared : ~new_mappers[r]

FailedPassAfterWork ==
    \E t \in threads :
      /\ ret[t].kind = "configure"
      /\ ret[t].exc # NoExc
      /\ ret[t].excOn # None
      /\ ret[t].cleared # {}
      /\ \E m \in ret[t].cfgd : /\ m # ret[t].excOn
                                /\ m \in ret[t].inited
                                /\ RegistryOfMapper(m) \in ret[t].cleared

\* C9: when a before_mapper_configured hook of a pending descriptor returns
\* EXT_SKIP, the pass calls no further hook of the descriptor, does not call
\* _post_configure_properties on it, fires no mapper_configured for it and
\* raises nothing on its account; the descriptor stays unconfigured and
\* pending, and its registry keeps _new_mappers set, so the next configure
\* call takes it up again.
SkipDefersDescriptor ==
    \A t \in threads : \A f \in PassFrames(t) : \A m \in Mappers :
      f.skipAt[m] > 0 =>
        /\ f.hooksRun[m] = f.skipAt[m]
        /\ m \notin f.posted
        /\ m \notin f.mcd
        /\ m \notin f.cfgd
        /\ f.excOn # m
        /\ ~configured[m]
        /\ ToConfigure(class_[m])
        /\ manager_mapper[class_[m]] = m
        /\ new_mappers[RegistryOfMapper(m)]

SkippedAtFirstHook ==
    \E t \in threads : \E m \in Mappers :
      /\ ret[t].kind = "configure"
      /\ ret[t].skipAt[m] = 1
      /\ ret[t].hooksRun[m] < NHooks
      /\ ret[t].exc = NoExc
      /\ ret[t].nAfter = 1
      /\ ret[t].cfgd # {}

FirstNotification(m) ==
    \E t \in threads :
      /\ AtPc(t, "configure", "mc")
      /\ Top(t).m = m
      /\ m \in Top(t).cfgd
      /\ m \notin Top(t).mcd
      /\ mcCount[m] = 0

StaysConfigured ==
    \A m \in Mappers :
      configured[m] =>
        /\ configured'[m]
        /\ postCount'[m] = postCount[m]
        /\ initCount'[m] = initCount[m]
        /\ mcCount'[m] = mcCount[m] \/ FirstNotification(m)

\* C10: once the configured flag of a descriptor is true it stays true, no
\* pass calls _post_configure_properties on the descriptor, and
\* mapper_configured fires for it at most once, in the pass that set the
\* flag and after the flag was set.
ConfiguredIsTerminal ==
    /\ [](\A t \in threads : \A f \in ConfigureFrames(t) :
            f.pc = "post" => ~configured[f.m])
    /\ [](\A m \in Mappers : mcCount[m] > 0 => configured[m] /\ mcCount[m] = 1)
    /\ [][StaysConfigured]_vars

ConfiguredPassedOver ==
    \E t \in threads : \E m \in Mappers :
      /\ configured[m]
      /\ ~dispose_called[m]
      /\ postCount[m] = 1
      /\ mcCount[m] = 1
      /\ ret[t].kind = "configure"
      /\ ret[t].nBefore = 1
      /\ ret[t].cfgd # {}
      /\ m \notin ret[t].seen
      /\ RegistryOfMapper(m) \in ret[t].done

\* ---- inheritance chains -----------------------------------------------------
Constructed(m) == mstatus[m] = "constructed"

RECURSIVE RootOf(_)
RootOf(m) == IF inherits[m] = None THEN m ELSE RootOf(inherits[m])

ConstructFrames(t) ==
    {f \in StackFrames(t) \cup {ret[t]} : f.kind = "construct"}

\* C12: every descriptor that has an inheritance parent references the same
\* polymorphic_map object as its parent, after any constructions and
\* _set_concrete_base calls.
SharesMapOfParent ==
    \A m \in Mappers :
      (Constructed(m) /\ inherits[m] # None /\ Constructed(inherits[m]))
        => pmap_of[m] = pmap_of[inherits[m]]

\* the frame a thread's construction step leaves behind
FrameAfter(t) ==
    IF Len(stack'[t]) = 0 THEN ret'[t] ELSE stack'[t][Len(stack'[t])]

OnlyEntryChanged(b, i) ==
    \A c \in Mappers, j \in Identities :
      (c # b \/ j # i) => pmaps'[c][j] = pmaps[c][j]

IdentityWritten(t) ==
    LET f == Top(t)
        m == f.m
        i == f.arg_identity
        b == pmap_of'[m]
    IN
    IF RaisedBeforeLink(f) # "none" \/ i = "none"
    THEN pmaps' = pmaps /\ ~FrameAfter(t).warned
    ELSE /\ pmaps'[b][i] = m
         /\ OnlyEntryChanged(b, i)
         /\ f.arg_inherits # None =>
              /\ b = pmap_of[f.arg_inherits]
              /\ FrameAfter(t).warned <=> pmaps[b][i] # None

EveryReassignmentWarns ==
    \A t \in threads :
      /\ \A f \in ConstructFrames(t) :
           (f.pc # "lock" /\ f.prior \notin {None, f.m}) => f.warned
      /\ \A f \in ConfigureFrames(t) : f.rebound # {} => f.warned

\* C16: the base_mapper of every descriptor is the descriptor at the end of
\* its inherits links, which has no parent; a descriptor without a parent is
\* its own base_mapper; the descriptors of one chain have one base_mapper.
BaseMapperIsRoot ==
    \A m \in Mappers :
      (Constructed(m) /\ \A x \in ToRoot(m) : Constructed(x))
        => /\ base_mapper[m] = RootOf(m)
           /\ inherits[base_mapper[m]] = None
           /\ inherits[m] = None => base_mapper[m] = m

\* ---- the configuration mutex ---------------------------------------------------
\* a frame inside "with _CONFIGURE_MUTEX": a construction after line 657, a
\* configure call from line 3362 to the end of its finally clause
Holding(f) ==
    \/ f.kind = "construct" /\ f.pc # "lock"
    \/ f.kind = "configure" /\ f.pc \notin {"lock", "after"}

InCritical(t) == \E f \in StackFrames(t) : Holding(f)

InPass(t) == \E f \in StackFrames(t) : f.kind = "configure" /\ Holding(f)

InConstruction(t) == \E f \in StackFrames(t) : f.kind = "construct" /\ Holding(f)

\* C11: the steps of a construction from _configure_inheritance to the
\* flagging of the mapper, and configuration passes, exclude each other
\* across threads: at most one thread is inside either, it owns the mutex,
\* and every mapper a pass works on was constructed to the end.
ConstructionExcludesPass ==
    /\ \A t \in threads, u \in threads :
         (t # u /\ InCritical(t)) => ~InCritical(u)
    /\ \A t \in threads : InCritical(t) => mutex.owner = t
    /\ \A t \in threads : \A f \in StackFrames(t) :
         (f.kind = "configure" /\ Holding(f))
           => /\ \A m \in Mappers :
                   (mstatus[m] = "constructing" /\ ~InConstruction(t))
                     => \E u \in threads \ {t} :
                          /\ ~Idle(u)
                          /\ Top(u).kind = "construct"
                          /\ Top(u).pc = "lock"
                          /\ Top(u).m = m
              /\ f.m # None => mstatus[f.m] = "constructed"

ConstructionWaitsForPass ==
    \E t \in threads, u \in threads :
      /\ t # u
      /\ InPass(t)
      /\ Top(t).m # None
      /\ AtPc(u, "construct", "lock")
      /\ mutex.owner = t

MapsChanged ==
    pmaps' # pmaps \/ inheriting_mappers' # inheriting_mappers

Live(m) == Constructed(m) /\ ~dispose_called[m]

SecondPrimaryRefused(t) ==
    LET f == Top(t) IN
    manager_mapper[f.arg_class] # None
      => /\ stack'[t] = Pop(t)[t]
         /\ ret'[t].m = f.m
         /\ ret'[t].exc.name = "ArgumentError"
         /\ mstatus'[f.m] = "raised"
         /\ manager_mapper' = manager_mapper

\* C19: a class has at most one primary mapper: of the mappers constructed
\* to the end and not disposed of, no two map one class, and the mapper of a
\* class's manager maps that class; constructing a mapper for a class that
\* has a primary mapper raises ArgumentError and leaves the manager's mapper
\* as it was.
OnePrimaryMapper ==
    /\ [](\A m \in Mappers, n \in Mappers :
            (Live(m) /\ Live(n) /\ class_[m] = class_[n]) => m = n)
    /\ [](\A m \in Mappers : Live(m) => manager_mapper[class_[m]] = m)
    /\ [][\A t \in threads :
            (AtPc(t, "construct", "instrument") /\ stack'[t] # stack[t])
              => SecondPrimaryRefused(t)]_vars

SecondPrimaryRaised ==
    \E t \in threads :
      /\ ret[t].kind = "construct"
      /\ ret[t].exc.name = "ArgumentError"
      /\ ret[t].arg_inherits = None
      /\ ret[t].arg_fail = "none"
      /\ mstatus[ret[t].m] = "raised"
      /\ \E n \in Mappers \ {ret[t].m} :
           /\ Live(n)
           /\ class_[n] = ret[t].arg_class
           /\ manager_mapper[ret[t].arg_class] = n

\* ---- tables and primary keys ----------------------------------------------------
\* a construction step of _configure_inheritance for a mapper with a parent
InheritingStep(t) ==
    /\ AtPc(t, "construct", "lock")
    /\ stack'[t] # stack[t]
    /\ Top(t).arg_inherits # None
    /\ IsSubclass(Top(t).arg_class, class_[Top(t).arg_inherits])

\* C17: a mapper constructed with a parent and no local table is a
\* single-table mapper: its local_table is None after construction, its
\* persist_selectable is the persist_selectable of its parent, and its
\* single flag is True.
SingleTableHasNoLocalTable ==
    [][\A t \in threads :
         (InheritingStep(t) /\ local_table[Top(t).m] = None)
           => /\ local_table'[Top(t).m] = None
              /\ persist_selectable'[Top(t).m]
                   = persist_selectable[Top(t).arg_inherits]
              /\ single'[Top(t).m]]_vars

JoinStep(t) ==
    /\ InheritingStep(t)
    /\ local_table[Top(t).m] # None
    /\ local_table[Top(t).m] # local_table[Top(t).arg_inherits]
    /\ ~concrete[Top(t).m]

FkErrors == {"NoForeignKeysError", "AmbiguousForeignKeysError"}

JoinOutcome(t) ==
    LET f == Top(t)
        m == f.m
        p == f.arg_inherits
        g == FrameAfter(t)
    IN
    IF f.arg_cond
    THEN /\ g.exc.name \notin FkErrors
         /\ persist_selectable'[m] =
              [by |-> m, on |-> "explicit",
               tables |-> Append(persist_selectable[p].tables, local_table[m])]
    ELSE IF f.arg_fks = 0
    THEN /\ g.exc.name = "NoForeignKeysError"
         /\ mstatus'[m] = "raised"
         /\ persist_selectable' = persist_selectable
    ELSE IF f.arg_fks > 1
    THEN /\ g.exc.name = "AmbiguousForeignKeysError"
         /\ mstatus'[m] = "raised"
         /\ persist_selectable' = persist_selectable
    ELSE /\ g.exc.name \notin FkErrors
         /\ persist_selectable'[m] =
              [by |-> m, on |-> "inferred",
               tables |-> Append(persist_selectable[p].tables, local_table[m])]

\* C18: for a mapper with a parent, a local table other than the parent's
\* and not concrete: without an inherit condition the construction raises
\* NoForeignKeysError when the tables have no foreign key between them and
\* AmbiguousForeignKeysError when they have more than one, and otherwise
\* makes persist_selectable the join of the parent's persist_selectable and
\* the local table on the inferred condition; with an inherit condition it
\* raises neither error and joins on the given condition.
JoinConditionInferred ==
    [][\A t \in threads : JoinStep(t) => JoinOutcome(t)]_vars

AmbiguousJoinRaised ==
    \E t \in threads :
      /\ ret[t].kind = "construct"
      /\ ret[t].exc.name = "AmbiguousForeignKeysError"
      /\ ret[t].arg_fks = 2
      /\ ~ret[t].arg_cond
      /\ mstatus[ret[t].m] = "raised"
      /\ persist_selectable[ret[t].m] = NoSelectable
      /\ persist_selectable[ret[t].arg_inherits] # NoSelectable

HasKeyArgument(m) == primary_key[m] = DerivedPrimaryKey(m, TRUE)

ReusesKeys(m) ==
    /\ Constructed(m)
    /\ inherits[m] # None
    /\ ~concrete[m]
    /\ ~HasKeyArgument(m)

\* C20: a mapper constructed to the end with a parent, not concrete and
\* without a primary_key argument, has the primary_key of its parent, the
\* same tuple, whether it is single-table or joined; a chain of such mappers
\* has the primary key of its base.
PrimaryKeyOfParent ==
    /\ \A m \in Mappers :
         ReusesKeys(m) => /\ primary_key[m] = primary_key[inherits[m]]
                          /\ primary_key[m].by # m
    /\ \A t \in threads :
         (/\ ret[t].kind = "construct"
          /\ ret[t].exc = NoExc
          /\ ret[t].arg_inherits # None
          /\ ~concrete[ret[t].m]
          /\ ~ret[t].arg_pkarg)
           => ReusesKeys(ret[t].m)
    /\ \A m \in Mappers :
         (\A x \in ToRoot(m) \ {RootOf(m)} : ReusesKeys(x))
           => primary_key[m] = primary_key[RootOf(m)]

ChainSharesKey ==
    \E m \in Mappers :
      /\ ReusesKeys(m)
      /\ ReusesKeys(inherits[m])
      /\ single[m] # single[inherits[m]]
      /\ primary_key[m] = primary_key[RootOf(m)]
      /\ primary_key[m].by = RootOf(m)
      /\ Constructed(RootOf(m))

\* a step of _configure_pks that the key checks must refuse
KeyRefused(t) ==
    LET f == Top(t) IN
    (\/ ~f.arg_pkarg /\ f.arg_fail = "pks"
     \/ /\ f.arg_fail = "reduced"
        /\ ~(inherits[f.m] # None /\ ~concrete[f.m] /\ ~f.arg_pkarg))
      => /\ ret'[t].m = f.m
         /\ ret'[t].exc.name = "ArgumentError"
         /\ mstatus'[f.m] = "raised"
         /\ primary_key' = primary_key

\* C21: every mapper constructed to the end has a primary_key of at least
\* one column: without a primary_key argument, mapped columns that hold no
\* primary key column of persist_selectable make the construction raise
\* ArgumentError, also for a mapper that would reuse the key of its parent,
\* and so does a key that reduces to no column.
PrimaryKeyNotEmpty ==
    /\ [](\A m \in Mappers :
            Constructed(m) => primary_key[m].from \in {"table", "argument"})
    /\ [][\A t \in threads :
            (AtPc(t, "construct", "pks") /\ stack'[t] # stack[t])
              => KeyRefused(t)]_vars

InheritingKeyRefused ==
    \E t \in threads :
      /\ ret[t].kind = "construct"
      /\ ret[t].exc.name = "ArgumentError"
      /\ ret[t].arg_fail = "pks"
      /\ ~ret[t].arg_pkarg
      /\ ret[t].arg_inherits # None
      /\ ~concrete[ret[t].m]
      /\ props[ret[t].m] # <<>>
      /\ mstatus[ret[t].m] = "raised"
      /\ primary_key[ret[t].arg_inherits].from = "table"

\* ---- disposal ------------------------------------------------------------------
DisposedClean(r) ==
    /\ managers'[r] = {}
    /\ dependents'[r] = {}
    /\ dependencies'[r] = {}
    /\ \A x \in Registries : r \notin dependents'[x]
    /\ ~new_mappers'[r]
    /\ \A c \in managers[r] : manager_mapper'[c] = None

\* a step of _dispose_registries over the next registry of the iteration
DisposeOutcome(t) ==
    LET f == Top(t) IN
    f.todo # {} =>
      IF Len(stack'[t]) = Len(stack[t])
      THEN DisposedClean(Top(t)'.reg)
      ELSE /\ ret'[t].exc.name = "InvalidRequestError"
           /\ ~f.cascade
           /\ (dependents[ret'[t].reg] \ f.regs) # {}
           /\ UNCHANGED regvars

\* a configure call that follows a completed disposal of its registries
ConfigureAfterDispose(t) ==
    (/\ Idle(t)
     /\ ret[t].kind = "dispose"
     /\ ret[t].exc = NoExc
     /\ ret[t].done # {}
     /\ stack'[t] # <<>> \/ ret'[t].kind = "configure")
      => \A f \in {FrameAfter(t)} :
           (f.kind = "configure" /\ f.regs \subseteq ret[t].done)
             => /\ stack'[t] = <<>>
                /\ f.nBefore = 0
                /\ f.pc = "returned"

InitFlags ==
    /\ inputs = [QuietInputs EXCEPT !.slots = ChainMappers, !.own_class = TRUE,
                                    !.concretes = BOOLEAN,
                                    !.batches = BOOLEAN, !.updates = BOOLEAN,
                                    !.deletes = BOOLEAN]
    /\ threads = {1}
    /\ InitState

SpecFlags == InitFlags /\ [][NextConstruct]_vars

\* ---- the flags of a chain ------------------------------------------------------
\* the step of _configure_inheritance on a mapper with a parent, past the
\* checks that precede the links
FlagsInherited(t) ==
    LET m == Top(t).m
        p == Top(t).arg_inherits
    IN (p # None /\ RaisedBeforeLink(Top(t)) = "none")
         => /\ batch'[m] = batch[p]
            /\ passive_updates'[m] = passive_updates[p]
            /\ passive_deletes'[m] = (passive_deletes[p] \/ passive_deletes[m])
            /\ passive_deletes[p] => passive_deletes'[m]

\* C29: a mapper constructed with a parent leaves _configure_inheritance with
\* the batch and passive_updates of the parent whatever its own arguments
\* were, and with passive_deletes true if the parent's is true; so every
\* mapper under a mapper with passive_deletes has passive_deletes, and the
\* batch and passive_updates of a chain are those of its root
FlagsFollowParent ==
    /\ [](\A m \in Mappers :
            (mstatus[m] \in {"constructed", "raised"} /\ inherits[m] # None
               /\ m \in ChildrenOf({inherits[m]}))
              => /\ batch[m] = batch[RootOf(m)]
                 /\ passive_updates[m] = passive_updates[RootOf(m)]
                 /\ \A a \in ToRoot(m) : passive_deletes[a] => passive_deletes[m])
    /\ [][\A t \in threads :
            (AtPc(t, "construct", "lock") /\ stack'[t] # stack[t])
              => FlagsInherited(t)]_vars

\* a mapper given batch=False, passive_updates=False and no passive_deletes
\* was constructed under a parent with the opposite flags
FlagsOverridden ==
    \E t \in threads :
      /\ ret[t].kind = "construct"
      /\ ret[t].exc = NoExc
      /\ ret[t].arg_inherits # None
      /\ ~ret[t].arg_batch
      /\ ~ret[t].arg_passive_deletes
      /\ batch[ret[t].m]
      /\ passive_deletes[ret[t].m]
      /\ passive_deletes[ret[t].arg_inherits]
      /\ inherits[ret[t].arg_inherits] # None

\* ---- the single-table criterion ------------------------------------------------
NextFilter == NextConstruct \/ \E t \in ThreadIds : single_table_criterion(t)

\* trees of NMappers mappers over one or more tables, each mapper with one of
\* two polymorphic identities; the mappers of a program either all name a
\* discriminator or none does
InitFilter ==
    /\ \E on \in BOOLEAN :
         inputs = [QuietInputs EXCEPT !.slots = NMappers, !.own_class = TRUE,
                                      !.identities = Identities,
                                      !.tables = {"none", "own"},
                                      !.discriminators = {on}]
    /\ threads = {1}
    /\ InitState

SpecFilter == InitFilter /\ [][NextFilter]_vars

\* the mappers at or below m
Below(m) == {x \in Mappers : mstatus[x] = "constructed" /\ m \in ToRoot(x)}

NextJoins == NextConstruct \/ \E t \in ThreadIds : with_polymorphic_args(t)

\* trees of ChainMappers mappers: single-table, joined-table and concrete
\* subtypes, joined on an inferred or a given condition
InitJoins ==
    /\ inputs = [QuietInputs EXCEPT !.slots = ChainMappers, !.own_class = TRUE,
                                    !.concretes = BOOLEAN,
                                    !.tables = {"none", "own"},
                                    !.conds = BOOLEAN]
    /\ threads = {1}
    /\ InitState

SpecJoins == InitJoins /\ [][NextJoins]_vars

\* the mappers _mappers_from_spec hands to _selectable_from_mappers: all of
\* self_and_descendants, or those of it that are given or stand between a
\* given mapper and the mapper
Requested(f) ==
    IF f.arg_star THEN memoized[f.m]
    ELSE {x \in memoized[f.m] : \E q \in SpecFor(f.m, f.arg_spec) : x \in ToRoot(q)}

JoinedSubtypes(f) == {x \in Requested(f) \ {f.m} : ~single[x] /\ ~concrete[x]}

\* what a call that passed the isa() check returned
JoinsAnswer(t) ==
    LET f == ret[t] IN
    IF \E x \in Requested(f) \ {f.m} : concrete[x]
    THEN f.exc.name = "InvalidRequestError"
    ELSE /\ f.exc = NoExc
         /\ Len(f.joins) = Cardinality(JoinedSubtypes(f))
         /\ \A x \in JoinedSubtypes(f) :
              \E i \in 1 .. Len(f.joins) :
                /\ f.joins[i].table = local_table[x]
                /\ f.joins[i].on = persist_selectable[x].on
                /\ f.joins[i].outer = ~f.arg_innerjoin

\* C27: without a selectable, _with_polymorphic_args raises
\* InvalidRequestError if a requested mapper other than the mapper itself is
\* concrete; otherwise it adds to persist_selectable exactly one join for
\* each requested joined-table mapper, of the local table of that mapper on
\* its inherit condition, an outer join unless innerjoin is set, and none
\* for a single-table mapper or for the mapper itself
OneJoinPerJoinedSubtype ==
    [][\A t \in threads :
         (/\ Idle(t)
          /\ stack'[t] = stack[t]
          /\ ret'[t].kind = "_with_polymorphic_args"
          /\ ret'[t].excSite # "isa")
           => JoinsAnswer(t)']_vars

\* a call for a joined-table and a single-table subtype returned one join
JoinedAndSingleRequested ==
    \E t \in threads :
      /\ ret[t].kind = "_with_polymorphic_args"
      /\ ret[t].exc = NoExc
      /\ Len(ret[t].joins) = 1
      /\ Cardinality(Requested(ret[t])) = 3
      /\ \E x \in Requested(ret[t]) \ {ret[t].m} : single[x]

\* a call that asked for a concrete subtype raised
ConcreteRequested ==
    \E t \in threads :
      /\ ret[t].kind = "_with_polymorphic_args"
      /\ ret[t].exc.name = "InvalidRequestError"
      /\ ret[t].excSite = "concrete"
      /\ \E x \in Requested(ret[t]) \ {ret[t].m} : concrete[x]

\* ---- identity keys -----------------------------------------------------------------
NextIdentity ==
    \/ NextConstruct
    \/ \E t \in ThreadIds : identity_key_from_row(t)
    \/ \E t \in ThreadIds : identity_key_from_primary_key(t)

\* PassMappers mappers with polymorphic identities, single-table, joined or
\* concrete, with and without a primary_key argument of two columns
InitIdentity ==
    /\ inputs = [QuietInputs EXCEPT !.own_class = TRUE,
                                    !.identities = {"none", "a"},
                                    !.concretes = BOOLEAN,
                                    !.tables = {"none", "own"},
                                    !.pkargs = BOOLEAN]
    /\ threads = {1}
    /\ InitState

SpecIdentity == InitIdentity /\ [][NextIdentity]_vars

\* the values of a row for the primary key columns, in primary_key order
KeyValues(m, row, adapter) ==
    [i \in 1 .. Len(PrimaryKeyColumns(m)) |->
       row[IF adapter THEN Adapted(PrimaryKeyColumns(m)[i])
           ELSE PrimaryKeyColumns(m)[i]]]

\* a call of identity_key_from_primary_key that follows a call of
\* identity_key_from_row on the same mapper, with the same token and with
\* the values of that row
RoundTrip(t) ==
    /\ Idle(t)
    /\ ret[t].kind = "identity_key_from_row"
    /\ stack'[t] = stack[t]
    /\ ret'[t].kind = "identity_key_from_primary_key"
    /\ ret'[t].m = ret[t].m
    /\ ret'[t].arg_token = ret[t].arg_token
    /\ ret'[t].arg_primary_key = KeyValues(ret[t].m, ret[t].arg_row,
                                           ret[t].arg_adapter)

\* C26: identity_key_from_primary_key, given the values of a row for the
\* primary key columns in primary_key order and the same token, returns the
\* key identity_key_from_row returned for the row: the identity class, the
\* tuple of the values and the token
IdentityKeyRoundTrip ==
    [][\A t \in threads :
         RoundTrip(t)
           => /\ ret'[t].key = ret[t].key
              /\ ret[t].key = <<IdentityClass(ret[t].m),
                                KeyValues(ret[t].m, ret[t].arg_row,
                                          ret[t].arg_adapter),
                                ret[t].arg_token>>]_vars

\* the key of a row with different values in the two columns of a
\* primary_key argument, of a mapper whose identity class is its parent's,
\* was returned again for the values of the row
RoundTripOverTwoColumns ==
    \E t \in threads :
      /\ ret[t].kind = "identity_key_from_primary_key"
      /\ ret[t].after = ret[t].key
      /\ Len(PrimaryKeyColumns(ret[t].m)) = 2
      /\ ret[t].key[2][1] # ret[t].key[2][2]
      /\ ret[t].key[1] # class_[ret[t].m]
      /\ ret[t].arg_token # None

\* ---- the property map of a new mapper ---------------------------------------------
\* chains of ChainMappers mappers, joined, single-table or concrete, each
\* with a properties dictionary and an exclude_properties of its own
InitProperties ==
    /\ inputs = [QuietInputs EXCEPT
                   !.slots = ChainMappers, !.own_class = TRUE,
                   !.concretes = BOOLEAN, !.tables = {"none", "own"},
                   !.properties = {{}, {"r", "y"}, {"x"}},
                   !.excludes = {{}, {"y"}}]
    /\ threads = {1}
    /\ InitState

SpecProperties == InitProperties /\ [][NextConstruct]_vars

\* the keys of a property map are distinct
DistinctKeys(ps) ==
    \A i, j \in 1 .. Len(ps) : ps[i].key = ps[j].key => i = j

\* the entries of ps whose keys are not in ks come in the order their keys
\* have in qs
SameOrder(ps, qs, ks) ==
    \A i, j \in 1 .. Len(ps) :
      \A k, l \in 1 .. Len(qs) :
        (/\ ps[i].key \notin ks
         /\ ps[j].key \notin ks
         /\ ps[i].key = qs[k].key
         /\ ps[j].key = qs[l].key
         /\ k < l) => i < j

\* the property map ps that _configure_properties() leaves on mapper m, whose
\* parent had the property map qs (empty without a parent)
MergedInOrder(m, ps, qs) ==
    LET explicit(i) == ps[i].key \in init_properties[m]
        inherited(i) == /\ ~explicit(i)
                        /\ HasKey(qs, ps[i].key)
                        /\ ~ShouldExclude(m, ps[i].key)
        implicit(i) == ~explicit(i) /\ ~inherited(i)
        unchanged(i) == IF HasKey(qs, ps[i].key)
                        THEN ps[i] = GetProp(qs, ps[i].key) ELSE FALSE
        cols == SelectableColumns(persist_selectable[m].tables)
    IN /\ DistinctKeys(ps)
       \* the three sources, in order
       /\ \A i, j \in 1 .. Len(ps) :
            /\ (explicit(i) /\ ~explicit(j)) => i < j
            /\ (inherited(i) /\ implicit(j)) => i < j
       /\ \A k \in init_properties[m] :
            HasKey(ps, k) /\ ParentOf(GetProp(ps, k).by) = m
       /\ Len(SelectSeq(ps, LAMBDA e : e.key \in init_properties[m]))
            = Cardinality(init_properties[m])
       \* inherited properties, in the order of the parent
       /\ SameOrder(ps, qs, init_properties[m] \cup exclude_properties[m])
       /\ \A k \in 1 .. Len(qs) :
            (qs[k].key \notin init_properties[m] /\ ~ShouldExclude(m, qs[k].key))
              => HasKey(ps, qs[k].key)
       /\ \A i \in 1 .. Len(ps) :
            inherited(i)
              => /\ \/ unchanged(i)
                    \/ concrete[m] /\ ps[i].kind = "concrete"
                    \/ /\ ps[i].kind = "column"
                       /\ ps[i].by = m
                       /\ \E n \in 1 .. Len(cols) : ps[i].cols[1] = cols[n]
       \* implicit column properties
       /\ \A i \in 1 .. Len(ps) :
            implicit(i)
              => /\ ps[i].kind = "column"
                 /\ ps[i].by = m
                 /\ Len(ps[i].cols) = 1
                 /\ \E n \in 1 .. Len(cols) : ps[i].cols[1] = cols[n]
                 /\ ~ShouldExclude(m, ps[i].cols[1].name)
                 /\ \A j \in 1 .. Len(ps) :
                      (j # i /\ (explicit(j) \/ unchanged(j)))
                        => ~MapsColumn(<<ps[j]>>, ps[i].cols[1])
       /\ \A n \in 1 .. Len(cols) :
            ~ShouldExclude(m, cols[n].name) => MapsColumn(ps, cols[n])

\* C22: the step of _configure_properties that does not raise leaves a
\* property map in which every key appears once, the keys of the properties
\* dictionary come first and hold the mapper's own properties, the keys
\* inherited from the parent follow in the parent's order, exactly those that
\* are neither in the dictionary nor excluded, and the keys of the column
\* properties made for the columns of the persist selectable that no
\* installed property maps and that are not excluded come last
PropertiesMergedInOrder ==
    [][\A t \in threads :
         (/\ AtPc(t, "construct", "properties")
          /\ stack'[t] # <<>>
          /\ AtPc(t, "construct", "polymorphic_setter")')
           => MergedInOrder(Top(t).m, props'[Top(t).m],
                            IF inherits[Top(t).m] = None THEN <<>>
                            ELSE props[inherits[Top(t).m]])]_vars

\* a mapper whose dictionary has a key of its parent and which excludes
\* another key of its parent has properties from all three sources: its own,
\* one of its parent, and one made for a column that the excluded property
\* of the parent maps
ThreeSourcesMerged ==
    \E m \in Mappers :
      /\ mstatus[m] = "constructed"
      /\ inherits[m] # None
      /\ init_properties[m] # {}
      /\ \E k \in init_properties[m] : HasKey(props[inherits[m]], k)
      /\ \E k \in exclude_properties[m] :
           /\ k \notin init_properties[m]
           /\ HasKey(props[inherits[m]], k)
           /\ HasKey(props[m], k) => GetProp(props[m], k).by = m
      /\ \E i \in 1 .. Len(props[m]) :
           /\ props[m][i].key \notin init_properties[m]
           /\ HasKey(props[inherits[m]], props[m][i].key)
           /\ props[m][i] = GetProp(props[inherits[m]], props[m][i].key)
      /\ \E i \in 1 .. Len(props[m]) :
           /\ props[m][i].key \notin init_properties[m]
           /\ props[m][i].by = m
           /\ props[m][i].kind = "column"
           /\ Len(props[m][i].cols) = 1

NextProps ==
    \/ NextPass
    \/ \E t \in ThreadIds :
      \/ add_property(t)
      \/ set_polymorphic_on(t)

\* PassMappers classes, each mapped once, joined or concrete, whose
\* before_mapper_configured hooks return or return EXT_SKIP; properties are
\* added between construction and the configure passes
InitProps ==
    /\ inputs = [QuietInputs EXCEPT !.own_class = TRUE, !.hooks = {"ok", "skip"},
                                    !.concretes = BOOLEAN,
                                    !.add_keys = AddKeys]
    /\ threads = {1}
    /\ InitState

SpecProps == InitProps /\ [][NextProps]_vars

\* ---- reading the properties ------------------------------------------------------
NextRead ==
    \/ NextPass
    \/ \E t \in ThreadIds :
      \/ get_property(t)
      \/ get_property_by_column(t)
      \/ iterate_properties(t)
      \/ check_configure(t)
      \/ read_properties(t)

\* PassMappers classes, each mapped once, whose hooks return, return EXT_SKIP
\* or raise; the properties are read between construction and the configure
\* passes
InitRead ==
    /\ inputs = [QuietInputs EXCEPT !.own_class = TRUE,
                                    !.hooks = {"ok", "skip", "raise"}]
    /\ threads = {1}
    /\ InitState

SpecRead == InitRead /\ [][NextRead]_vars

\* ---- add_property ------------------------------------------------------------------
\* the step of thread t is a call of add_property()
AddsProperty(t) ==
    /\ t \in threads
    /\ Idle(t)
    /\ prop_parent' # prop_parent
    /\ ret'[t].kind = "add_property"

\* C24: a call of add_property(key, prop) on a mapper that is not configured
\* adds the key to the initial properties and leaves the property map of the
\* mapper and of every other mapper as it was; on a configured mapper it puts
\* the property into the property map and calls its init() within the call
AddPropertyDefersUntilConfigured ==
    [][\A t \in ThreadIds :
         AddsProperty(t)
           => LET m == ret'[t].m
                  k == ret'[t].arg_key
                  a == ret'[t].added
              IN /\ k \in init_properties'[m]
                 /\ ~configured[m] => props' = props
                 /\ configured[m]
                      => /\ HasKey(props'[m], k)
                         /\ GetProp(props'[m], k).by = a
                         /\ initCount'[a] = 1
                         /\ configure_finished'[a]]_vars

\* ---- the init() of a property ---------------------------------------------------------
\* C23: init() is called at most once on every property and only by the
\* mapper that is its parent, and every property that a configured mapper
\* holds and is the parent of has had its init() called
InitializedOnceByOwner ==
    /\ \A id \in PropIds :
         /\ initCount[id] <= 1
         /\ \A m \in initFor[id] : ParentOf(id) = m
    /\ \A m \in Mappers :
         (configured[m] /\ ~dispose_called[m])
           => \A i \in 1 .. Len(props[m]) :
                ParentOf(props[m][i].by) = m => initCount[props[m][i].by] >= 1

\* ---- the configuration check of the accessors -------------------------------------
\* the step of thread t is the read of an accessor that returns a value
Reads(t) ==
    /\ t \in threads
    /\ ~Idle(t)
    /\ Top(t).kind = "accessor"
    /\ Top(t).pc \in {"called", "read"}
    /\ stack'[t] # stack[t]
    /\ ret'[t].exc = NoExc

\* the accessor that reads has called _configure_registries() for the
\* registry of its mapper and the call has returned, or the registry had no
\* new mappers
CheckedFirst(t) ==
    \/ /\ Top(t).pc = "called"
       /\ ret[t].kind = "configure"
       /\ ret[t].regs = {RegistryOf(class_[Top(t).m])}
       /\ ret[t].cascade
       /\ ret[t].exc = NoExc
    \/ /\ Top(t).pc = "read"
       /\ ~new_mappers[RegistryOf(class_[Top(t).m])]

\* C25: get_property(key), unless it is called with _configure_mappers=False,
\* and iterate_properties read the property map after the configuration
\* check: the registry of the mapper has no new mappers, or a configure pass
\* over it has run and returned; get_property_by_column(column) reads without
\* a check, and no configure pass is ever started by it
TwoAccessorsCheckFirst ==
    /\ [][\A t \in ThreadIds :
            Reads(t)
              => /\ Top(t).accessor = "iterate_properties" => CheckedFirst(t)
                 /\ (Top(t).accessor = "get_property" /\ Top(t).arg_configure)
                      => CheckedFirst(t)
                 /\ Top(t).accessor = "get_property_by_column"
                      => Top(t).pc = "read"]_vars
    /\ [](\A t \in threads :
            \A i \in 1 .. Len(stack[t]) :
              (stack[t][i].kind = "accessor" /\ i < Len(stack[t]))
                => /\ stack[t][i].accessor # "get_property_by_column"
                   /\ stack[t][i].accessor = "get_property"
                        => stack[t][i].arg_configure)

\* iterate_properties found new mappers in the registry, ran the configure
\* pass that configured its mapper and returned the properties
ReadAfterPass ==
    \E t \in threads :
      /\ ret[t].kind = "accessor"
      /\ ret[t].accessor = "iterate_properties"
      /\ ret[t].pendingAtCheck
      /\ ret[t].exc = NoExc
      /\ ret[t].key # <<>>
      /\ configured[ret[t].m]

\* each of the three accessors reads after the configuration check
EveryAccessorChecksFirst ==
    [][\A t \in ThreadIds :
         (Reads(t) /\ (Top(t).accessor = "get_property" => Top(t).arg_configure))
           => CheckedFirst(t)]_vars

\* ---- the flags of a pass and of the mappers it finishes -----------------------
\* C34: no descriptor is both configured and failed: in every reachable
\* state a mapper whose configured flag is true has no recorded
\* _configure_failed exception, also when the failure comes from a
\* mapper_configured hook that runs after _post_configure_properties.
ConfiguredNeverFailed ==
    \A m \in Mappers : configured[m] => configure_failed[m] = NoExc

\* the frames of a thread in which the body under _CONFIGURE_MUTEX, from the
\* assignment _already_compiling = True to the finally clause, is running
BodyPcs == {"before", "before_call", "recurse", "nextmapper", "bmc",
            "bmc_call", "failcheck", "post", "mc", "mc_call", "endreg",
            "finally"}
InBody(t) ==
    \E f \in StackFrames(t) : f.kind = "configure" /\ f.pc \in BodyPcs

OutermostEnds(t) ==
    /\ Len(stack[t]) = 1
    /\ Top(t).kind = "configure"
    /\ stack'[t] = <<>>

\* C35: _already_compiling is true only while some thread is inside the body
\* of a configuration pass under the mutex, and it is false whenever an
\* outermost call of _configure_registries has ended: after a pass that
\* completed, after the early return of the double check and after a pass
\* that an exception left; the next call takes the guard again.
FlagOnlyInsidePass ==
    /\ [](already_compiling =>
            /\ mutex.owner # None
            /\ InBody(mutex.owner))
    /\ [][\A t \in ThreadIds :
            OutermostEnds(t) => /\ ~already_compiling'
                                /\ mutex' = MutexFree]_vars
    /\ [](\A t \in threads :
            (AtPc(t, "configure", "lock") /\ Len(stack[t]) = 1)
              => ~already_compiling)

\* a pass that failed is followed by a call that got past the guard and ran
\* a pass of its own
PassAfterFailedPass ==
    \E t \in threads :
      /\ caught # {}
      /\ ret[t].kind = "configure"
      /\ ~ret[t].nested
      /\ ret[t].nBefore = 1
      /\ ret[t].folAny
      /\ ~already_compiling

\* C36: after_configured fires only in a call whose pass ran to its end
\* without raising: not in a call that an exception left, not in a call that
\* returned at the guard, not in a call whose double check found nothing;
\* and a call that fired it fired before_configured before.
AfterConfiguredOnlyOnCompletion ==
    \A t \in threads : \A f \in ConfigureFrames(t) :
      /\ f.nAfter > 0 => /\ f.pc = "returned"
                         /\ f.exc = NoExc
                         /\ f.found
                         /\ ~f.entryFlag
                         /\ f.todo = {}
                         /\ f.nBefore > 0
      /\ f.exc # NoExc => f.nAfter = 0
      /\ Reentrant(f) => f.nAfter = 0
      /\ ~f.found => f.nAfter = 0

\* a pass fired after_configured although a mapper of its registries carries
\* a recorded failure, the pass before it having raised
CompletedAfterFailure ==
    \E t \in threads :
      /\ ret[t].kind = "configure"
      /\ ret[t].nAfter = 1
      /\ ret[t].nBefore = 1
      /\ caught # {}
      /\ \E m \in Mappers : /\ configure_failed[m] # NoExc
                            /\ RegistryOfMapper(m) \in ret[t].done

\* C37: _ready_for_configure of a mapper becomes true, outside disposal, only
\* in the last step of its construction, which leaves the constructor
\* without an exception; a mapper whose construction raised is not flagged
\* and no configuration pass enumerates it.
FlaggedOnlyAtEndOfConstruction ==
    /\ [][\A m \in Mappers :
            (/\ ~ready_for_configure[m]
             /\ ready_for_configure'[m]
             /\ ~dispose_called'[m])
              => \E t \in threads :
                   /\ AtPc(t, "construct", "pks")
                   /\ Top(t).m = m
                   /\ stack'[t] = <<>>
                   /\ ret'[t].exc = NoExc
                   /\ mstatus'[m] = "constructed"
                   /\ new_mappers'[RegistryOf(class_[m])]]_vars
    /\ [](\A m \in Mappers :
            mstatus[m] = "raised" =>
              /\ ~dispose_called[m] => ~ready_for_configure[m]
              /\ \A t \in threads : \A f \in ConfigureFrames(t) :
                   m \notin f.seen)

\* the construction of the primary mapper of a class raised at the primary
\* key, and a pass went over the registry of the class afterwards
RaisedAtKeyThenPass ==
    \E m \in Mappers : \E t \in threads :
      /\ RaisedInConstruction(m)
      /\ LeftAsPrimaryMapper(m)
      /\ ~ready_for_configure[m]
      /\ ret[t].kind = "configure"
      /\ ret[t].nBefore = 1
      /\ RegistryOfMapper(m) \in ret[t].done

\* ---- the memoized descendants ---------------------------------------------------
\* C38: a memoized self_and_descendants is never stale: once a mapper has
\* been appended to the _inheriting_mappers of a parent, by its construction
\* to the end or by _set_concrete_base, the self_and_descendants of every
\* mapper above it holds the new mapper, also when the view had been read
\* and memoized before.
MemoizedDescendantsFresh ==
    \A m \in Mappers :
      (Constructed(m) /\ memoized[m] # {})
        => \A x \in ComputedDescendants(m) : Constructed(x) => x \in memoized[m]

\* ---- two threads that configure at once -------------------------------------------
InConfigure(t) == ~Idle(t) /\ stack[t][1].kind = "configure"

NothingPending(regs) == \A r \in regs : PendingIn(r) = {}

\* a call that returned at the double check: it fired nothing and went over
\* no mapper
ReturnedAtDoubleCheck(f) ==
    /\ f.pc = "returned"
    /\ ~f.found
    /\ f.exc = NoExc
    /\ f.nBefore = 0
    /\ f.nAfter = 0
    /\ f.seen = {}
    /\ f.posted = {}
    /\ f.mcd = {}

\* C39: when two threads call configure at once and no hook skips or raises,
\* every pending mapper is given one call of _post_configure_properties, one
\* init() of each of its properties and one mapper_configured in total, the
\* two calls go over no mapper in common, and the thread that takes the
\* mutex second, nothing having been constructed meanwhile, returns at the
\* double check without firing before_configured or any other notification.
ConcurrentCallsConfigureOnce ==
    /\ [](\A m \in Mappers :
            /\ postCount[m] <= 1
            /\ mcCount[m] <= postCount[m]
            /\ (configured[m] /\ ~dispose_called[m]) => postCount[m] = 1
            /\ mcCount[m] < postCount[m]
                 => \E t \in threads : /\ AtPc(t, "configure", "mc")
                                       /\ Top(t).m = m)
    /\ [](\A p \in PropIds : initCount[p] <= 1)
    /\ [](\A t \in threads : \A u \in threads \ {t} :
            (InConfigure(t) /\ InConfigure(u))
              => /\ stack[t][1].seen \cap stack[u][1].seen = {}
                 /\ stack[t][1].posted \cap stack[u][1].posted = {}
                 /\ stack[t][1].mcd \cap stack[u][1].mcd = {})
    /\ [][\A t \in threads : \A u \in threads \ {t} :
            (/\ InConfigure(t)
             /\ stack[t][1].pc = "after"
             /\ AtPc(u, "configure", "lock")
             /\ Len(stack[u]) = 1
             /\ NothingPending(Top(u).regs)
             /\ stack'[u] # stack[u])
              => /\ stack'[u] = <<>>
                 /\ ReturnedAtDoubleCheck(ret'[u])]_vars

\* a thread that entered with mappers pending returned at the double check,
\* the pass of the other thread having configured two mappers meanwhile
SecondThreadFoundNothing ==
    \E t \in threads : \E u \in threads \ {t} :
      /\ ret[u].kind = "configure"
      /\ ret[u].pendingAtCheck
      /\ ReturnedAtDoubleCheck(ret[u])
      /\ InConfigure(t)
      /\ stack[t][1].pc = "after"
      /\ Cardinality(stack[t][1].cfgd) >= 2
      /\ \A m \in stack[t][1].cfgd : postCount[m] = 1 /\ mcCount[m] = 1

\* ---- a mapper that stays failed -----------------------------------------------------
\* the mapper is enumerated by registry._mappers_to_configure()
IsPending(m) ==
    /\ class_[m] # None
    /\ class_[m] \in managers[RegistryOfMapper(m)]
    /\ manager_mapper[class_[m]] = m
    /\ ToConfigure(class_[m])

StaysFailed(m) == IsPending(m) /\ configure_failed[m] # NoExc

\* ChainMappers classes, each mapped once, two of them in one registry, whose
\* hooks return, return EXT_SKIP or raise and whose init() may raise
InitFailing ==
    /\ inputs = [QuietInputs EXCEPT !.slots = ChainMappers, !.own_class = TRUE,
                                    !.hooks = {"ok", "skip", "raise"}]
    /\ threads = {1}
    /\ InitState

SpecFailing == InitFailing /\ [][NextPass]_vars

NextOrphan ==
    \/ NextConstruct
    \/ \E t \in ThreadIds :
      \/ add_delete_orphan(t)
      \/ is_orphan(t)

\* chains of ChainMappers mappers with either value of legacy_is_orphan, to
\* which delete-orphan relationships are added
InitOrphan ==
    /\ inputs = [QuietInputs EXCEPT !.slots = ChainMappers, !.own_class = TRUE,
                                    !.legacies = BOOLEAN]
    /\ threads = {1}
    /\ InitState

SpecOrphan == InitOrphan /\ [][NextOrphan]_vars

\* C33: _is_orphan(state), over the delete-orphan relationships of the
\* mapper and of all the mappers above it: with legacy_is_orphan it is true
\* when there is such a relationship and the state has a parent through
\* none of them; without legacy_is_orphan it is true when the state has no
\* parent through one of them at least; with no such relationship it is
\* false.
IsOrphanAsDocumented ==
    \A t \in threads :
      ret[t].kind = "is_orphan" =>
        LET m == ret[t].m
            rels == UNION {Range(delete_orphans[a]) : a \in ToRoot(m)}
            has == ret[t].arg_parents
        IN /\ legacy_is_orphan[m] =>
                (ret[t].orphan <=> (rels # {} /\ rels \cap has = {}))
           /\ ~legacy_is_orphan[m] =>
                (ret[t].orphan <=> (rels \ has # {}))
           /\ rels = {} => ~ret[t].orphan

\* a state with a parent through the relationship of its own mapper and none
\* through the one of the mapper above: no orphan for a legacy mapper
OneParentOfTwoGone ==
    \E t \in threads :
      /\ ret[t].kind = "is_orphan"
      /\ legacy_is_orphan[ret[t].m]
      /\ inherits[ret[t].m] # None
      /\ Len(delete_orphans[ret[t].m]) = 1
      /\ Len(delete_orphans[inherits[ret[t].m]]) = 1
      /\ delete_orphans[ret[t].m][1] \in ret[t].arg_parents
      /\ delete_orphans[inherits[ret[t].m]][1] \notin ret[t].arg_parents
      /\ ~ret[t].orphan

\* ---- the on-connect hook of pysqlcipher ------------------------------------------------
NextConnect ==
    \/ change_url
    \/ on_connect_url
    \/ connect

\* every URL of the model; hooks are made from it, it is changed, and
\* connections are made with the hooks
InitConnect ==
    /\ inputs = QuietInputs
    /\ threads = {1}
    /\ MapperState
    /\ CascadeState
    /\ url \in Urls
    /\ on_connect = NoHook
    /\ conn = <<>>

SpecConnect == InitConnect /\ [][NextConnect]_vars

\* the pragmas of the query string of a URL, in the order of the dialect
PresentIn(u) == SelectSeq(pragmas, LAMBDA p : u.query[p] # Missing)

\* what the hook made from URL u is to do on a connection
ExpectedOnConnect(u, super) ==
    <<Cursor,
      Execute("key", IF u.password = Missing THEN "" ELSE u.password)>>
      \o [i \in 1 .. Len(PresentIn(u)) |->
            Execute(PresentIn(u)[i], u.query[PresentIn(u)[i]])]
      \o <<Close>>
      \o (IF super THEN <<SuperOnConnect>> ELSE <<>>)

\* C31: on every new connection the hook executes pragma key with the
\* passphrase of the URL first, then one pragma for each of kdf_iter, cipher,
\* cipher_page_size and cipher_use_hmac that the query string of the URL
\* holds, in that order, then closes the cursor, and then calls the hook of
\* the parent dialect if there is one; the passphrase and the query values
\* are those of the URL when on_connect_url() was called, whatever the URL
\* is when the hook runs.
HookRunsPragmasInOrder ==
    [][conn' # conn =>
         conn' = ExpectedOnConnect(on_connect.url, on_connect.super_on_connect)]_vars

\* a connection made with a hook whose URL named a password and two of the
\* four pragmas, and the URL now names another password and other pragmas
ConnectedWithCapturedValues ==
    /\ Len(conn) = 6
    /\ conn[2] = Execute("key", "secret")
    /\ conn[3].pragma = "cipher"
    /\ conn[4].pragma = "cipher_use_hmac"
    /\ conn[5] = Close
    /\ conn[6] = SuperOnConnect
    /\ url.password # "secret"
    /\ url.query["cipher"] = Missing
    /\ url.query["kdf_iter"] # Missing
    /\ on_connect.url # url

\* ---- the traversal of cascade_iterator ------------------------------------------------
NextCascade ==
    \/ cascade_iterator
    \/ next

\* what the attributes of the objects refer to: the first attribute of an
\* object refers to none, one or two of the objects, in an order; the others
\* to none or to the first object
Targets(k) ==
    IF k = 1
    THEN {<<>>} \cup {<<a>> : a \in Objects}
                \cup ({<<a, b>> : a \in Objects, b \in Objects} \ {<<a, a>> : a \in Objects})
    ELSE {<<>>, <<1>>}

InitCascade ==
    /\ inputs = QuietInputs
    /\ threads = {1}
    /\ MapperState
    /\ DialectState
    /\ related \in [Objects -> {f \in [1 .. NProps -> UNION {Targets(k) : k \in 1 .. NProps}] :
                                   \A k \in 1 .. NProps : f[k] \in Targets(k)}]
    /\ generator = NoGenerator
    /\ yielded = <<>>

SpecCascade == InitCascade /\ [][NextCascade]_vars

\* the depth-first walk from the properties k.. of object o: the items of a
\* property, each followed by the walk of its own properties, then the
\* next property
RECURSIVE WalkProps(_, _, _, _)
RECURSIVE WalkItems(_, _, _)
WalkProps(o, k, vis, ty) ==
    IF k > NProps THEN [out |-> <<>>, vis |-> vis]
    ELSE IF ty \notin CascadeOf(k) THEN WalkProps(o, k + 1, vis, ty)
    ELSE LET q == Produced(related[o][k], vis)
             a == WalkItems(q, vis \cup Range(q), ty)
             b == WalkProps(o, k + 1, a.vis, ty)
         IN [out |-> a.out \o b.out, vis |-> b.vis]

WalkItems(q, vis, ty) ==
    IF q = <<>> THEN [out |-> <<>>, vis |-> vis]
    ELSE LET a == WalkProps(Head(q), 1, vis, ty)
             b == WalkItems(Tail(q), a.vis, ty)
         IN [out |-> <<Head(q)>> \o a.out \o b.out, vis |-> b.vis]

Walk(o, ty) == WalkProps(o, 1, {}, ty).out

IsPrefix(s, t) == Len(s) <= Len(t) /\ s = SubSeq(t, 1, Len(s))

\* the objects whose properties a traversal has a reason to read
Parents == {generator.root} \cup Range(yielded)

\* what the traversal has yielded is the depth-first walk from the root, as
\* far as it has been asked for
YieldedIsWalk ==
    /\ generator.state = "created" =>
         yielded = <<>> /\ generator.visited_states = {}
    /\ generator.state = "suspended" =>
         /\ IsPrefix(yielded, Walk(generator.root, generator.type_))
         /\ generator.instance = yielded[Len(yielded)]
    /\ generator.state = "finished" =>
         /\ yielded = Walk(generator.root, generator.type_)
         /\ generator.visitables = <<>>
    /\ \A i \in 1 .. Len(yielded) :
         \E p \in Parents, k \in 1 .. NProps :
            /\ generator.type_ \in CascadeOf(k)
            /\ yielded[i] \in Range(related[p][k])

\* C32: cascade_iterator(rule, state) is a lazy depth-first traversal: it
\* follows only the properties whose cascade holds the rule and yields the
\* items the cascade iterators of these properties produce, one for each
\* next(); the root is yielded only where such an iterator produces it;
\* after an item its own properties are walked before its remaining
\* siblings; the traversal finishes when the stack is empty, and a new call
\* starts again from the root with an empty visited set.
CascadeIsLazyDepthFirst ==
    /\ [](YieldedIsWalk)
    /\ [][/\ generator'.state = "created" =>
               yielded' = <<>> /\ generator'.visited_states = {}
          /\ generator'.state = "suspended" =>
               yielded' = Append(yielded, generator'.instance)
          /\ generator'.state = "finished" /\ generator.state # "finished" =>
               yielded' = yielded]_vars

\* a finished traversal that yielded an item, then what the item refers to,
\* then the sibling of the item
ChildBeforeSibling ==
    /\ generator.state = "finished"
    /\ Len(yielded) = 3
    /\ related[generator.root][1] = <<yielded[1], yielded[3]>>
    /\ yielded[2] \in Range(related[yielded[1]][1])
    /\ generator.type_ = "delete"

\* C32 as stated: the walk, and the root is never among what is yielded
RootNeverYielded ==
    /\ YieldedIsWalk
    /\ generator.root \notin Range(yielded)

====
